---- MODULE Spec2Model ----
(***************************************************************************)
(* Storage core of the database: the LRU replacer and the buffer pool      *)
(* manager instance (src/buffer/lru_replacer.cpp,                          *)
(* src/buffer/buffer_pool_manager_instance.cpp).                           *)
(*                                                                         *)
(* The pool is a state machine over its frames (pages_), free_list_, the   *)
(* replacer's vector, the page-id counter and the disk.  Every public      *)
(* operation of the instance is one action.  Variables whose name starts   *)
(* with obs_ record what a caller observes (the last call and its result,  *)
(* the handles callers hold, the bytes they expect to be durable); they    *)
(* never influence the pool.                                               *)
(***************************************************************************)
EXTENDS Integers, Sequences, FiniteSets, TLC

\* ---------------------------------------------------------------- bounds
PoolSize == 2        \* pool_size_: number of frames of the instance
MaxPageId == 2       \* the page-id counter is capped: ids 0..MaxPageId
MaxData == 1         \* page bytes are abstracted to one value 0..MaxData
NumInstances == 2    \* num_instances of the parallel pool
NumThreads == 2      \* threads calling the parallel pool concurrently
BucketSize == 2      \* BUCKET_ARRAY_SIZE: pairs a bucket page holds
MaxDepth == 3        \* the directory grows up to global depth MaxDepth
MaxKey == 7          \* keys 0..MaxKey
MaxValue == 1        \* values 0..MaxValue
MaxCalls == 5        \* calls made on the hash table in one run
MaxRecorded == 4   \* calls on the hash table in a run that records them
MaxBucketArraySize == 8  \* a bucket page on its own holds 1..MaxBucketArraySize pairs
MaxTableFrames == 5   \* pool sizes 1..MaxTableFrames of a hash table on a small pool
MaxRemovals == 1     \* Remove and RemoveAt calls made on such a page in one run
NumTxns == 3         \* transactions calling the lock manager, ids 0..NumTxns-1
NumRids == 2         \* RIDs they lock

\* ------------------------------------------------------ program constants
INVALID_PAGE_ID == -1
num_instances_ == 1
instance_index_ == 0

Threads == 1 .. NumThreads
NoThread == 0
Instances == 0 .. (NumInstances - 1)
\* every instance of the parallel pool may hand out PoolSize + 1 page ids
ParMaxPageId == NumInstances * (PoolSize + 1) - 1
ParPageIds == 0 .. ParMaxPageId

Frames == 0 .. (PoolSize - 1)
PageIds == 0 .. MaxPageId
DataVals == 0 .. MaxData
NoFrame == -1

VARIABLES
  pages_,            \* Page[pool_size_]: page_id_, pin_count_, is_dirty_, data_
  free_list_,        \* std::list<frame_id_t>
  lru_cache_,        \* LRUReplacer::lru_cache_ (std::vector<frame_id_t>)
  current_element_,  \* LRUReplacer::current_element_
  next_page_id_,     \* page-id counter
  disk,              \* what DiskManager holds for every page id
  obs_calls,         \* how much of each call is recorded: "all", "brief", "none",
                     \* or the one operation whose calls are recorded
  obs_last,          \* the last call, its arguments, result and victim
  obs_watch,         \* the page whose bytes a client modifies (fixed per run)
  obs_held,          \* frame the client was handed for it and has not unpinned
  obs_pending,       \* the client modified it and has not unpinned it since
  obs_expect,        \* bytes the client handed over with UnpinPage(p, true) (-1: none)
  obs_order,         \* frames in the order UnpinPage made their pages evictable
  obs_run,           \* position in the run "fill the pool, unpin one, allocate"
  instances_,        \* ParallelBufferPoolManager::buffer_pool_manager_instances_
  candidate_instance_index_,  \* ParallelBufferPoolManager's NewPage cursor
  par_last,          \* the last call on the parallel pool and its result
  par_run,           \* the NewPage calls of a run that only allocates
  locks_,            \* ParallelBufferPoolManager::locks_: the holder of each mutex
  new_page_lock_,    \* ParallelBufferPoolManager::new_page_lock_: its holder
  threads_,          \* where each calling thread is inside the parallel pool
  directory_page,    \* HashTableDirectoryPage: global_depth_, local_depths_, bucket_page_ids_
  bucket_pages,      \* HashTableBucketPage of every bucket page created: its slots
  lookup_page_lsb_value_,  \* ExtendibleHashTable::lookup_page_lsb_value_
  cur_pages_count,   \* ExtendibleHashTable::cur_pages_count
  ht_next_page_id,   \* the page id the table's buffer pool hands out next
  ht_pin_count,      \* pin count of the directory page in that pool
  ht_assertions,     \* the build evaluates assert(...) (NDEBUG is not defined)
  ht_aborted,        \* an assertion failed: the process is gone
  ht_stored,         \* pairs whose Insert returned true, not removed since
  ht_calls,          \* number of calls made on the hash table
  ht_last,           \* the last call on the hash table and its result
  ht_reader,         \* where the thread calling GetValue is inside the call
  ht_writer,         \* where the thread calling Insert is inside SplitInsert
  bkt_page,          \* a HashTableBucketPage on its own: occupied_, readable_, array_
  bkt_removals,      \* number of Remove and RemoveAt calls made on it
  ht_pool_size,      \* pool_size of the pool the hash table runs on (fixed per run)
  txns_,             \* every Transaction: state_, shared_lock_set_, exclusive_lock_set_
  shared_locks_hold_by_txn_,     \* LockManager::shared_locks_hold_by_txn_
  exclusive_locks_hold_by_txn_   \* LockManager::exclusive_locks_hold_by_txn_

\* state of the parallel pool and of what its callers observe
par_vars == << instances_, candidate_instance_index_, par_last, par_run,
              locks_, new_page_lock_, threads_ >>

\* state of the extendible hash table and of what its callers observe
ht_vars == << directory_page, bucket_pages, lookup_page_lsb_value_, cur_pages_count,
             ht_next_page_id, ht_pin_count, ht_assertions, ht_aborted, ht_stored,
             ht_calls, ht_last, ht_reader, ht_writer >>

\* state of the components that are exercised on their own, and the size of
\* the hash table's pool, which no call changes
\* state of the lock manager and of the transactions that call it
lm_vars == << txns_, shared_locks_hold_by_txn_, exclusive_locks_hold_by_txn_ >>

unit_vars == << bkt_page, bkt_removals, ht_pool_size, lm_vars >>

vars == << pages_, free_list_, lru_cache_, current_element_, next_page_id_, disk,
           obs_calls, obs_last, obs_watch, obs_held, obs_pending, obs_expect, obs_order, obs_run,
           par_vars, ht_vars, unit_vars >>

\* ------------------------------------------------------------- helpers
Min(S) == CHOOSE x \in S : \A y \in S : x <= y

RemoveAll(s, x) == SelectSeq(s, LAMBDA y : y # x)

InSeq(s, x) == \E i \in 1 .. Len(s) : s[i] = x

\* --------------------------------------------------------- LRUReplacer
\* The replacer holds the first current_element_ entries of lru_cache_.
ReplacerHolds(lc, ce, f) == \E i \in 1 .. ce : lc[i] = f

\* LRUReplacer::Victim: [ok, frame, lc, ce]
Victim(lc, ce) ==
  IF ce = 0
    THEN [ok |-> FALSE, frame |-> NoFrame, lc |-> lc, ce |-> ce]
    ELSE [ok |-> TRUE, frame |-> lc[1],
          lc |-> [i \in 1 .. Len(lc) |-> IF i < ce THEN lc[i + 1] ELSE lc[i]],
          ce |-> ce - 1]

\* LRUReplacer::Pin: erases the first matching entry of the vector
Pin(lc, ce, f) ==
  IF ReplacerHolds(lc, ce, f)
    THEN LET i == Min({j \in 1 .. ce : lc[j] = f})
         IN [lc |-> SubSeq(lc, 1, i - 1) \o SubSeq(lc, i + 1, Len(lc)), ce |-> ce - 1]
    ELSE [lc |-> lc, ce |-> ce]

\* a replacer that takes every frame it is handed while it has room
Unpin_NoScan(lc, ce, f) ==
  IF ce = Len(lc) THEN [lc |-> lc, ce |-> ce]
  ELSE [lc |-> [lc EXCEPT ![ce + 1] = f], ce |-> ce + 1]

\* LRUReplacer::Unpin
Unpin(lc, ce, f) ==
  IF ReplacerHolds(lc, ce, f) THEN [lc |-> lc, ce |-> ce]
  ELSE IF ce = Len(lc) THEN [lc |-> lc, ce |-> ce]
  ELSE [lc |-> [lc EXCEPT ![ce + 1] = f], ce |-> ce + 1]

\* ------------------------------------------- BufferPoolManagerInstance
FindPageByPageId(pg, page_id) ==
  IF \E i \in Frames : pg[i].page_id = page_id
    THEN Min({i \in Frames : pg[i].page_id = page_id})
    ELSE NoFrame

\* The disk after FlushPgImp(page_id): the frame found by page id is written
\* when it is dirty; the dirty bit is left as it is.
FlushPgImp(pg, d, page_id) ==
  LET f == FindPageByPageId(pg, page_id)
  IN IF f # NoFrame /\ pg[f].is_dirty THEN [d EXCEPT ![page_id] = pg[f].data] ELSE d

\* FlushAllPgsImp (lines 74-85): every frame that holds a page and is dirty is
\* written, in frame order
FlushAllPgsImp(pg, d) ==
  [p \in DOMAIN d |->
     LET dirty == {f \in Frames : /\ pg[f].page_id = p
                                  /\ p # INVALID_PAGE_ID
                                  /\ pg[f].is_dirty}
     IN  IF dirty = {} THEN d[p]
         ELSE pg[CHOOSE f \in dirty : \A g \in dirty : g <= f].data]

\* The page ids FlushPgImp(page_id) hands to DiskManager::WritePage
FlushWrites(pg, page_id) ==
  LET f == FindPageByPageId(pg, page_id)
  IN IF f # NoFrame /\ pg[f].is_dirty THEN {page_id} ELSE {}

\* NewPgImp step 1: every frame has a non-zero pin count
AllPagesPinned(pg) == \A i \in Frames : pg[i].pin_count # 0

\* a pool that hands out its free frames oldest first
GetVictimPageFromListOrReplacer_Fifo(fl, lc, ce) ==
  IF Len(fl) > 0
    THEN [frame |-> fl[1], fl |-> SubSeq(fl, 2, Len(fl)),
          lc |-> lc, ce |-> ce, from_free |-> TRUE]
    ELSE LET v == Victim(lc, ce)
         IN [frame |-> IF v.ok THEN v.frame ELSE NoFrame, fl |-> fl,
             lc |-> v.lc, ce |-> v.ce, from_free |-> FALSE]

\* GetVictimPageFromListOrReplacer: [frame, fl, lc, ce, from_free]
GetVictimPageFromListOrReplacer(fl, lc, ce) ==
  IF Len(fl) > 0
    THEN [frame |-> fl[Len(fl)], fl |-> SubSeq(fl, 1, Len(fl) - 1),
          lc |-> lc, ce |-> ce, from_free |-> TRUE]
    ELSE LET v == Victim(lc, ce)
         IN [frame |-> IF v.ok THEN v.frame ELSE NoFrame, fl |-> fl,
             lc |-> v.lc, ce |-> v.ce, from_free |-> FALSE]

\* ResetMemory, then page_id_, pin_count_ = 1, is_dirty_ = false (and the bytes
\* ReadPage brings in, zero for a new page)
InstallPage(pg, f, page_id, data) ==
  [pg EXCEPT ![f] = [page_id |-> page_id, pin_count |-> 1, is_dirty |-> FALSE,
                     data |-> data]]

\* FetchPgImp 1.1: the frame of a resident page is returned as it is
FetchResident(pg, f) == pg

\* mutant of UnpinRefused: only a negative pin count is refused
UnpinRefused_Negative(page) == page.pin_count < 0

\* mutant of UnpinRefused: the pin_count_ <= 0 check is missing
UnpinRefused_Never(page) == FALSE

\* UnpinPgImp: the early return on pin_count_ <= 0
UnpinRefused(page) == page.pin_count <= 0

\* mutant of UnpinnedPage: the pin count is not decremented
UnpinnedPage_KeepsPin(page, is_dirty) == [page EXCEPT !.is_dirty = is_dirty]

\* UnpinPgImp: pin_count_ -= 1; is_dirty_ = is_dirty
UnpinnedPage(page, is_dirty) ==
  [page EXCEPT !.pin_count = page.pin_count - 1, !.is_dirty = is_dirty]

\* mutant of DeletedPage: the frame keeps its page id
DeletedPage_KeepsPageId(page) == [page EXCEPT !.data = 0]

\* mutant of DeleteRefused: the pin count is not looked at
DeleteRefused_Never(page) == FALSE

\* DeletePgImp step 2: a non-zero pin count, someone is using the page
DeleteRefused(page) == page.pin_count # 0

\* mutant of AllocatePage: the counter advances twice
AllocatePage_Twice(next, num) == [page_id |-> next, next |-> next + 2 * num]

\* AllocatePage: the page id handed out and the counter afterwards
AllocatePage(next, num) == [page_id |-> next, next |-> next + num]

\* DeletePgImp step 3: ResetMemory, page_id_ = INVALID_PAGE_ID
DeletedPage(page) == [page EXCEPT !.data = 0, !.page_id = INVALID_PAGE_ID]

\* DeletePgImp step 3: what happens to the replacer (nothing)
DeleteInReplacer(lc, ce, f) == [lc |-> lc, ce |-> ce]

\* ----------------------------------------------------------- observers
NoCall ==
  [op |-> "none", page |-> -1, ret |-> -1, hit |-> FALSE, victim |-> NoFrame,
   victim_pin |-> 0, from_free |-> FALSE, evicted |-> -1, oldest |-> NoFrame,
   pre_pin |-> 0, pre_dirty |-> FALSE, arg_dirty |-> FALSE, freed |-> NoFrame,
   wrote |-> {}]

Oldest == IF Len(obs_order) > 0 THEN obs_order[1] ELSE NoFrame

\* what the observers record of a call: everything; or only of a call that
\* reused a frame, freed a frame or was UnpinPage: that frame and the dirty bits;
\* or only of the calls of the operation obs_calls names: page and result;
\* or nothing
Logged(call) ==
  IF obs_calls = "all" THEN call
  ELSE IF /\ obs_calls = "brief"
          /\ (call.victim # NoFrame \/ call.freed # NoFrame \/ call.op = "UnpinPage")
    THEN [NoCall EXCEPT !.op = call.op, !.victim = call.victim,
                        !.freed = call.freed, !.pre_dirty = call.pre_dirty,
                        !.arg_dirty = call.arg_dirty]
  ELSE IF obs_calls = call.op
    THEN [NoCall EXCEPT !.op = call.op, !.page = call.page, !.ret = call.ret]
  ELSE NoCall

Ordered(order) == IF obs_calls = "all" THEN order ELSE << >>

\* the client's handle after page_id was installed in frame f over page old
HeldAfterInstall(old, page_id, f) ==
  IF page_id = obs_watch THEN f
  ELSE IF old = obs_watch THEN NoFrame
  ELSE obs_held


\* obs_run follows one run: NewPage calls only ("fill", n of them), then one
\* successful UnpinPage on the full pool ("unpinned", its frame u), then one
\* NewPage ("again"); any other call ends it ("off").
RunOff == [kind |-> "off", n |-> 0, u |-> NoFrame]

RunAfterNewPage ==
  IF obs_calls # "all" THEN RunOff
  ELSE IF obs_run.kind = "fill"
    THEN [obs_run EXCEPT !.n = IF obs_run.n > PoolSize THEN obs_run.n ELSE obs_run.n + 1]
  ELSE IF obs_run.kind = "unpinned" THEN [obs_run EXCEPT !.kind = "again"]
  ELSE RunOff

RunAfterUnpin(ok, f) ==
  IF obs_calls = "all" /\ ok /\ obs_run.kind = "fill" /\ obs_run.n >= PoolSize
    THEN [kind |-> "unpinned", n |-> obs_run.n, u |-> f]
    ELSE RunOff

\* ------------------------------------------- ParallelBufferPoolManager
\* One BufferPoolManagerInstance of the parallel pool, as a record: pages,
\* fl (free_list_), lc and ce (the replacer), next (next_page_id_).  The callers
\* of the parallel pool never mark a page dirty here, so no call writes to disk
\* and the bytes of every page stay zero.
NewInstance(instance_index) ==
  [pages |-> [i \in Frames |->
                [page_id |-> INVALID_PAGE_ID, pin_count |-> 0, is_dirty |-> FALSE,
                 data |-> 0]],
   fl |-> [i \in 1 .. PoolSize |-> i - 1],
   lc |-> [i \in 1 .. PoolSize |-> -1],
   ce |-> 0,
   next |-> instance_index]

\* BufferPoolManagerInstance::NewPgImp on instance b: [inst, ret, page]
InstNewPgImp(b, num) ==
  LET v == GetVictimPageFromListOrReplacer(b.fl, b.lc, b.ce)
      a == AllocatePage(b.next, num)
  IN IF AllPagesPinned(b.pages) \/ v.frame = NoFrame
       THEN [inst |-> b, ret |-> NoFrame, page |-> INVALID_PAGE_ID]
       ELSE [inst |-> [pages |-> InstallPage(b.pages, v.frame, a.page_id, 0),
                       fl |-> v.fl, lc |-> v.lc, ce |-> v.ce, next |-> a.next],
             ret |-> v.frame, page |-> a.page_id]

\* BufferPoolManagerInstance::FetchPgImp on instance b: [inst, ret]
InstFetchPgImp(b, page_id) ==
  LET hit == FindPageByPageId(b.pages, page_id)
      v == GetVictimPageFromListOrReplacer(b.fl, b.lc, b.ce)
  IN IF hit # NoFrame
       THEN [inst |-> [b EXCEPT !.pages = FetchResident(b.pages, hit)], ret |-> hit]
     ELSE IF v.frame = NoFrame
       THEN [inst |-> b, ret |-> NoFrame]
     ELSE [inst |-> [b EXCEPT !.pages = InstallPage(b.pages, v.frame, page_id, 0),
                              !.fl = v.fl, !.lc = v.lc, !.ce = v.ce],
           ret |-> v.frame]

\* BufferPoolManagerInstance::UnpinPgImp on instance b: [inst, ret]
InstUnpinPgImp(b, page_id, is_dirty) ==
  LET f == FindPageByPageId(b.pages, page_id)
  IN IF f = NoFrame \/ UnpinRefused(b.pages[f])
       THEN [inst |-> b, ret |-> FALSE]
       ELSE LET page == UnpinnedPage(b.pages[f], is_dirty)
                r == IF page.pin_count = 0 THEN Unpin(b.lc, b.ce, f)
                     ELSE [lc |-> b.lc, ce |-> b.ce]
            IN [inst |-> [b EXCEPT !.pages[f] = page, !.lc = r.lc, !.ce = r.ce],
                ret |-> TRUE]

\* BufferPoolManagerInstance::DeletePgImp on instance b: [inst, ret]
InstDeletePgImp(b, page_id) ==
  LET f == FindPageByPageId(b.pages, page_id)
  IN IF f = NoFrame THEN [inst |-> b, ret |-> TRUE]
     ELSE IF DeleteRefused(b.pages[f]) THEN [inst |-> b, ret |-> FALSE]
     ELSE LET r == DeleteInReplacer(b.lc, b.ce, f)
          IN [inst |-> [b EXCEPT !.pages[f] = DeletedPage(b.pages[f]),
                                 !.fl = Append(b.fl, f), !.lc = r.lc, !.ce = r.ce],
              ret |-> TRUE]

\* mutant of GetBufferPoolManager: every page id is routed to instance 0
GetBufferPoolManager_First(page_id) == 0

\* GetBufferPoolManager: page_id % num_instances_
GetBufferPoolManager(page_id) == page_id % NumInstances

\* NewPgImp line 80: the instance tried in iteration i of the walk
CandidateIndex(cursor, i) == (cursor + i) % NumInstances

\* mutant of WalkLength: the walk leaves out the last instance
WalkLength_Short == NumInstances - 1

\* NewPgImp line 79: the walk tries num_instances_ instances
WalkLength == NumInstances

\* NewPgImp line 93: the successor is assigned to the local candidate_index,
\* candidate_instance_index_ keeps its value
CursorAfterNewPage(cursor, candidate_index) == cursor

\* a thread outside the parallel pool
Idle == [pc |-> "idle", kind |-> "none", i |-> 0, k |-> 0]

\* mutant of MutexFree: a mutex can be taken whoever holds it
MutexFree_Always(holder) == TRUE

\* std::lock_guard's constructor returns once nobody holds the mutex
MutexFree(holder) == holder = NoThread

\* mutant of Unlocked: the guard goes out of scope and the mutex stays taken
Unlocked_Keeps(locks, k) == locks

\* std::lock_guard's destructor
Unlocked(locks, k) == [locks EXCEPT ![k] = NoThread]

\* mutant of WalkReleased: the mutex of a refusing instance is kept
WalkReleased_Keeps(locks, k) == locks

\* NewPgImp line 89: continue ends the scope of instance_lock_guard
WalkReleased(locks, k) == Unlocked(locks, k)

NoParCall ==
  [op |-> "none", page |-> INVALID_PAGE_ID, ret |-> NoFrame, inst |-> -1,
   start |-> 0, refused |-> {}]

\* of the calls on the parallel pool the NewPage calls are recorded
ParLogged(call) == IF call.op = "NewPage" THEN call ELSE NoParCall

\* par_run follows a run of NewPage calls on the fresh pool: how many calls
\* were made and the page ids they returned; any other call ends it
ParRunOff == [kind |-> "off", calls |-> 0, ids |-> {}]

InitParallel ==
  /\ instances_ = [k \in Instances |-> NewInstance(k)]
  /\ candidate_instance_index_ = 0
  /\ par_last = NoParCall
  /\ par_run = [kind |-> "fill", calls |-> 0, ids |-> {}]
  /\ locks_ = [k \in Instances |-> NoThread]
  /\ new_page_lock_ = NoThread
  /\ threads_ = [t \in Threads |-> Idle]

\* ------------------------------------------------- hash bucket page
\* The table is the instance ExtendibleHashTable<int, int, IntComparator>.
\* A key stands for the value hash_fn_.GetHash gives it.
Keys == 0 .. MaxKey
Values == 0 .. MaxValue
BucketSlots == 1 .. BucketSize

\* the array_ bytes of a slot that is not readable are never read (KeyAt and
\* ValueAt, lines 118-133): they are kept at 0
EmptySlot == [occupied |-> FALSE, readable |-> FALSE, key |-> 0, value |-> 0]

\* a page fresh from NewPage: both bitmaps are zero
EmptyBucket == [i \in BucketSlots |-> EmptySlot]

\* HashTableBucketPage::IsFull, for a capacity that fills its bitmap bytes
BucketIsFull(b) == \A i \in BucketSlots : b[i].occupied

\* HashTableBucketPage::IsEmpty
BucketIsEmpty(b) == \A i \in BucketSlots : ~b[i].occupied

\* HashTableBucketPage::KeyExistInArray
KeyExistInArray(b, key) == \E i \in BucketSlots : b[i].readable /\ b[i].key = key

\* a bucket page that never finds the pair
KeyAndValueExistInArray_Never(b, key, value) == FALSE

\* HashTableBucketPage::KeyAndValueExistInArray
KeyAndValueExistInArray(b, key, value) ==
  \E i \in BucketSlots : b[i].readable /\ b[i].key = key /\ b[i].value = value

\* HashTableBucketPage::GetValue: the values pushed to result, in slot order
BucketGetValue(b, key) ==
  LET hit == SelectSeq(b, LAMBDA e : e.readable /\ e.key = key)
  IN  [i \in 1 .. Len(hit) |-> hit[i].value]

\* HashTableBucketPage::GetAllElements: the readable pairs, in slot order
GetAllElements(b) ==
  LET hit == SelectSeq(b, LAMBDA e : e.readable)
  IN  [i \in 1 .. Len(hit) |-> [key |-> hit[i].key, value |-> hit[i].value]]

\* HashTableBucketPage::RemoveAllElements: both bitmaps are zeroed
RemoveAllElements(b) == EmptyBucket

\* HashTableBucketPage::Insert: the bucket afterwards and the result
BucketInsert(b, key, value) ==
  IF BucketIsFull(b) \/ KeyAndValueExistInArray(b, key, value)
    THEN [bucket |-> b, ret |-> FALSE]
    ELSE LET i == CHOOSE j \in BucketSlots :
                    /\ ~b[j].occupied
                    /\ \A m \in BucketSlots : m < j => b[m].occupied
         IN  [bucket |-> [b EXCEPT ![i] = [occupied |-> TRUE, readable |-> TRUE,
                                           key |-> key, value |-> value]],
              ret |-> TRUE]

\* the slot HashTableBucketPage::Remove clears: the first occupied and
\* readable one whose key compares equal (line 101 compares the key only)
RemovedSlot(b, key, value, i) == b[i].occupied /\ b[i].readable /\ b[i].key = key

\* HashTableBucketPage::Remove: the bucket afterwards and the result
BucketRemove(b, key, value) ==
  IF BucketIsEmpty(b) \/ ~KeyExistInArray(b, key)
    THEN [bucket |-> b, ret |-> FALSE]
    ELSE IF \E i \in BucketSlots : RemovedSlot(b, key, value, i)
      THEN LET i == CHOOSE j \in BucketSlots :
                      /\ RemovedSlot(b, key, value, j)
                      /\ \A m \in BucketSlots : m < j => ~RemovedSlot(b, key, value, m)
           IN  [bucket |-> [b EXCEPT ![i] = EmptySlot], ret |-> TRUE]
      ELSE [bucket |-> b, ret |-> FALSE]

\* ------------------------------------- hash bucket page, byte by byte
\* The bitmaps as the code keeps them: occupied_ and readable_ are arrays of
\* chars, slot i is bit i % 8 of char i / 8 (lines 142-160).  A page p is
\* [size, occupied_, readable_, array_], size being BUCKET_ARRAY_SIZE.
kCharBit == 8

\* the chars of one bitmap of a page of bucket_array_size slots
OCCUPIED_ARRAY_SIZE(bucket_array_size) == (bucket_array_size - 1) \div kCharBit + 1

\* (c >> k) & 0x01
BitAt(c, k) == (c \div (2 ^ k)) % 2

\* c | (1 << k)
BitSet(c, k) == IF BitAt(c, k) = 1 THEN c ELSE c + 2 ^ k

\* c & ~(1 << k)
BitCleared(c, k) == IF BitAt(c, k) = 1 THEN c - 2 ^ k ELSE c

\* c & (1 << k)
BitKept(c, k) == BitAt(c, k) * (2 ^ k)

\* a page fresh from NewPage: every byte is zero
NewBucketPage(bucket_array_size) ==
  [size |-> bucket_array_size,
   occupied_ |-> [i \in 0 .. OCCUPIED_ARRAY_SIZE(bucket_array_size) - 1 |-> 0],
   readable_ |-> [i \in 0 .. OCCUPIED_ARRAY_SIZE(bucket_array_size) - 1 |-> 0],
   array_ |-> [i \in 0 .. bucket_array_size - 1 |-> [key |-> 0, value |-> 0]]]

\* the slots the loops over BUCKET_ARRAY_SIZE visit
SlotsOf(p) == 0 .. p.size - 1

\* HashTableBucketPage::IsOccupied
IsOccupied(p, bucket_idx) ==
  BitAt(p.occupied_[bucket_idx \div kCharBit], bucket_idx % kCharBit) = 1

\* HashTableBucketPage::SetOccupied
SetOccupied(p, bucket_idx) ==
  [p EXCEPT !.occupied_[bucket_idx \div kCharBit] = BitSet(@, bucket_idx % kCharBit)]

\* HashTableBucketPage::IsReadable
IsReadable(p, bucket_idx) ==
  BitAt(p.readable_[bucket_idx \div kCharBit], bucket_idx % kCharBit) = 1

\* HashTableBucketPage::SetReadable
SetReadable(p, bucket_idx) ==
  [p EXCEPT !.readable_[bucket_idx \div kCharBit] = BitSet(@, bucket_idx % kCharBit)]

\* HashTableBucketPage::KeyAt: {} for a slot that is not readable
KeyAt(p, bucket_idx) == IF IsReadable(p, bucket_idx) THEN p.array_[bucket_idx].key ELSE 0

\* HashTableBucketPage::ValueAt
ValueAt(p, bucket_idx) == IF IsReadable(p, bucket_idx) THEN p.array_[bucket_idx].value ELSE 0

\* HashTableBucketPage::IsFull: every char of occupied_ is 0xFF
IsFull(p) == \A i \in DOMAIN p.occupied_ : p.occupied_[i] = 255

\* HashTableBucketPage::IsEmpty: every char of occupied_ is 0x00
IsEmpty(p) == \A i \in DOMAIN p.occupied_ : p.occupied_[i] = 0

\* HashTableBucketPage::KeyExistInArray
PageKeyExistInArray(p, key) ==
  \E i \in SlotsOf(p) : IsReadable(p, i) /\ KeyAt(p, i) = key

\* HashTableBucketPage::KeyAndValueExistInArray
PageKeyAndValueExistInArray(p, key, value) ==
  \E i \in SlotsOf(p) : IsReadable(p, i) /\ KeyAt(p, i) = key /\ ValueAt(p, i) = value

\* the first slot of p that passes Test, or p.size when none does
FirstSlot(p, Test(_, _)) ==
  IF \E i \in SlotsOf(p) : Test(p, i)
    THEN CHOOSE i \in SlotsOf(p) : Test(p, i) /\ \A j \in SlotsOf(p) : j < i => ~Test(p, j)
    ELSE p.size

\* !IsOccupied(i), the test of the loop that looks for an empty slot (line 75)
IsFree(p, i) == ~IsOccupied(p, i)

\* a page that writes the last slot that is not occupied
InsertSlot_Last(p) ==
  IF \E i \in SlotsOf(p) : IsFree(p, i)
    THEN CHOOSE i \in SlotsOf(p) : IsFree(p, i) /\ \A j \in SlotsOf(p) : j > i => ~IsFree(p, j)
    ELSE p.size

\* the slot Insert writes: the first one that is not occupied (lines 74-75)
InsertSlot(p) == FirstSlot(p, IsFree)

\* HashTableBucketPage::Insert: the page afterwards and the result
PageInsert(p, key, value) ==
  IF IsFull(p) \/ PageKeyAndValueExistInArray(p, key, value)
    THEN [page |-> p, ret |-> FALSE]
    ELSE LET i == InsertSlot(p)
         IN  IF i < p.size
               THEN [page |-> SetReadable(SetOccupied(
                                [p EXCEPT !.array_[i] = [key |-> key, value |-> value]],
                                i), i),
                     ret |-> TRUE]
               ELSE [page |-> p, ret |-> FALSE]

\* HashTableBucketPage::Remove: both bits of the first occupied and readable
\* slot whose key compares equal are cleared (lines 99-108)
PageRemove(p, key, value) ==
  IF IsEmpty(p) \/ ~PageKeyExistInArray(p, key)
    THEN [page |-> p, ret |-> FALSE]
    ELSE LET Hit(q, j) == IsOccupied(q, j) /\ IsReadable(q, j) /\ KeyAt(q, j) = key
             i == FirstSlot(p, Hit)
         IN  IF i < p.size
               THEN [page |-> [p EXCEPT
                                 !.readable_[i \div kCharBit] = BitCleared(@, i % kCharBit),
                                 !.occupied_[i \div kCharBit] = BitCleared(@, i % kCharBit)],
                     ret |-> TRUE]
               ELSE [page |-> p, ret |-> FALSE]

\* HashTableBucketPage::RemoveAt (line 138): readable_[i / 8] &= (1 << (i % 8))
RemoveAt(p, bucket_idx) ==
  IF IsOccupied(p, bucket_idx)
    THEN [p EXCEPT !.readable_[bucket_idx \div kCharBit] =
                     BitKept(@, bucket_idx % kCharBit)]
    ELSE p

\* HashTableBucketPage::RemoveAllElements (lines 212-215) writes
\* occupied_[i] and readable_[i] for every i < BUCKET_ARRAY_SIZE: all bytes
\* of the page before offset OCCUPIED_ARRAY_SIZE + BUCKET_ARRAY_SIZE become
\* zero.  In the <int, int> page array_ starts at the next multiple of four
\* after the bitmaps and a slot holds a four-byte key and a four-byte value.
ZeroedBytes(p) == OCCUPIED_ARRAY_SIZE(p.size) + p.size

ArrayOffset(p) == 4 * ((2 * OCCUPIED_ARRAY_SIZE(p.size) + 3) \div 4)

PageRemoveAllElements(p) ==
  [p EXCEPT
     !.occupied_ = [i \in DOMAIN p.occupied_ |-> 0],
     !.readable_ = [i \in DOMAIN p.readable_ |-> 0],
     !.array_ = [i \in SlotsOf(p) |->
                   [key |-> IF ArrayOffset(p) + 8 * i < ZeroedBytes(p)
                              THEN 0 ELSE p.array_[i].key,
                    value |-> IF ArrayOffset(p) + 8 * i + 4 < ZeroedBytes(p)
                                THEN 0 ELSE p.array_[i].value]]]

\* ExtendibleHashTable::Insert on the bucket page p a key maps to
\* (lines 119-136): what the call does with it
InsertPath(p, key, value) ==
  IF PageKeyAndValueExistInArray(p, key, value) THEN "duplicate"
  ELSE IF IsFull(p) THEN "SplitInsert"
  ELSE IF PageInsert(p, key, value).ret THEN "inserted"
  ELSE "refused"

\* ------------------------------------------------ hash directory page
\* directory_page_id_: the first page of a fresh pool (constructor, line 38)
directory_page_id_ == 0

\* DIRECTORY_ARRAY_SIZE slots, scaled to the deepest directory of the model
DirSlots == 0 .. (2 ^ MaxDepth - 1)

\* HashTableDirectoryPage::GetGlobalDepthMask
GetGlobalDepthMask(dir) == 2 ^ dir.global_depth_ - 1

\* HashTableDirectoryPage::Size
Size(dir) == 2 ^ dir.global_depth_

\* a directory page that grows without limit
IncrGlobalDepthFails_Never(dir) == FALSE

\* a directory at MAX_DEPTH cannot grow: IncrGlobalDepth is a fatal failure
IncrGlobalDepthFails(dir) == dir.global_depth_ >= MaxDepth

\* HashTableDirectoryPage::IncrGlobalDepth
IncrGlobalDepth(dir) == [dir EXCEPT !.global_depth_ = @ + 1]

\* HashTableDirectoryPage::SetLocalDepth
SetLocalDepth(dir, bucket_idx, local_depth) ==
  [dir EXCEPT !.local_depths_[bucket_idx] = local_depth]

\* HashTableDirectoryPage::SetBucketPageId
SetBucketPageId(dir, bucket_idx, bucket_page_id) ==
  [dir EXCEPT !.bucket_page_ids_[bucket_idx] = bucket_page_id]

\* ------------------------------------------------ extendible hash table
\* MaskByLocalDepth (line 27): ((1 << local_depth) - 1) & candidate
MaskByLocalDepth(candidate, local_depth) == candidate % (2 ^ local_depth)

\* a | b on unsigned integers
RECURSIVE BitOr(_, _)
BitOr(a, b) ==
  IF a = 0 THEN b
  ELSE IF b = 0 THEN a
  ELSE (IF a % 2 = 1 \/ b % 2 = 1 THEN 1 ELSE 0) + 2 * BitOr(a \div 2, b \div 2)

\* ExtendibleHashTable::Hash: the downcast of the 64-bit hash to unsigned,
\* here 30 bits wide; the directory uses the low MaxDepth bits
Hash(key) == key % (2 ^ 30)

\* ExtendibleHashTable::KeyToDirectoryIndex: hash & global mask
KeyToDirectoryIndex(key, dir) == Hash(key) % (GetGlobalDepthMask(dir) + 1)

\* ExtendibleHashTable::KeyToPageId
KeyToPageId(key, dir) == dir.bucket_page_ids_[KeyToDirectoryIndex(key, dir)]

\* the table as one value: directory page, bucket pages, signature map,
\* cur_pages_count and the next page id of its pool
Table ==
  [dir |-> directory_page, buckets |-> bucket_pages, lsb |-> lookup_page_lsb_value_,
   count |-> cur_pages_count, next |-> ht_next_page_id]

\* the first directory slot at which the scans of lines 222-232 and 276-290
\* stop: bucket page id 0 (and, if Depth is set, local depth 0)
ScanStop(dir, limit, Depth) ==
  LET ends == {i \in DirSlots :
                 /\ i < limit
                 /\ \/ dir.bucket_page_ids_[i] = 0
                    \/ Depth /\ dir.local_depths_[i] = 0}
  IN  IF ends = {} THEN limit ELSE CHOOSE i \in ends : \A j \in ends : i <= j

\* ExtendibleHashTable::GetPageToLocalDepth: std::unordered_map::insert keeps
\* the local depth of the first slot that names a page
GetPageToLocalDepth(dir) ==
  LET stop == ScanStop(dir, Size(dir), TRUE)
      seen == {i \in DirSlots : i < stop}
  IN  [p \in {dir.bucket_page_ids_[i] : i \in seen} |->
         LET first == CHOOSE i \in seen :
                        /\ dir.bucket_page_ids_[i] = p
                        /\ \A j \in seen : dir.bucket_page_ids_[j] = p => i <= j
         IN  dir.local_depths_[first]]

\* page_to_local_depth[page_id] (lines 254, 259): operator[] gives a page that
\* the map does not hold the value 0
DepthOf(page_to_local_depth, page_id) ==
  IF page_id \in DOMAIN page_to_local_depth THEN page_to_local_depth[page_id] ELSE 0

\* line 254: the pages whose signature equals slot index i masked by the
\* page's local depth
Match(i, lsb, page_to_local_depth) ==
  {p \in DOMAIN lsb : MaskByLocalDepth(i, DepthOf(page_to_local_depth, p)) = lsb[p]}

\* the pages that match a slot together with another page
Contested(dir, lsb, page_to_local_depth) ==
  UNION {Match(i, lsb, page_to_local_depth) : i \in
           {j \in DirSlots : /\ j < Size(dir)
                             /\ Cardinality(Match(j, lsb, page_to_local_depth)) > 1}}

\* lines 250-267: every slot below Size() is pointed to the page whose
\* signature equals the slot index masked by the page's local depth; of
\* several such pages the one std::unordered_map iterates last stays (rank is
\* the iteration order of the contested pages); a slot no page matches keeps
\* its entry
UpdateBucketPointers(dir, lsb, page_to_local_depth, rank) ==
  LET M(i) == Match(i, lsb, page_to_local_depth)
      Last(i) == IF Cardinality(M(i)) = 1 THEN CHOOSE p \in M(i) : TRUE
                 ELSE CHOOSE p \in M(i) : \A q \in M(i) : rank[q] <= rank[p]
      Set(i) == i < Size(dir) /\ M(i) # {}
  IN  [dir EXCEPT
         !.bucket_page_ids_ = [i \in DirSlots |-> IF Set(i) THEN Last(i) ELSE @[i]],
         !.local_depths_ = [i \in DirSlots |->
                              IF Set(i) THEN DepthOf(page_to_local_depth, Last(i)) ELSE @[i]]]

\* the bucket pages after NewPage returned page_id: the new page is zeroed
WithNewPage(buckets, page_id) ==
  [p \in DOMAIN buckets \cup {page_id} |-> IF p = page_id THEN EmptyBucket ELSE buckets[p]]

\* lookup_page_lsb_value_[page_id] (line 237): operator[] adds a page the map
\* does not hold, with signature 0
WithPage(lsb, page_id) ==
  [p \in DOMAIN lsb \cup {page_id} |-> IF p \in DOMAIN lsb THEN lsb[p] ELSE 0]

\* lines 203-239 of CreatePageAndUpdateDirectory: the directory page and the
\* signature map before the bucket pointers are updated, and the old page
SplitDirectory(t, key) ==
  LET new_bucket_page_id == t.next
      old_bucket_index == KeyToDirectoryIndex(key, t.dir)
      old_page_id == t.dir.bucket_page_ids_[old_bucket_index]
      d0 == IncrGlobalDepth(t.dir)
      original_local_depth == d0.local_depths_[old_bucket_index]
      stop == ScanStop(d0, 2 ^ MaxDepth, FALSE)
      d1 == [d0 EXCEPT !.local_depths_ =
               [i \in DirSlots |->
                  IF i < stop /\ d0.bucket_page_ids_[i] = old_page_id
                    THEN original_local_depth + 1 ELSE @[i]]]
      d2 == SetLocalDepth(SetBucketPageId(d1, t.count, new_bucket_page_id),
                          t.count, original_local_depth + 1)
      l0 == WithPage(t.lsb, old_page_id)
      l1 == [p \in DOMAIN l0 \cup {new_bucket_page_id} |->
               IF p = new_bucket_page_id
                 THEN BitOr(2 ^ original_local_depth, l0[old_page_id])
                 ELSE l0[p]]
  IN  [dir |-> d2, lsb |-> l1, old_page_id |-> old_page_id]

\* the iteration orders std::unordered_map may have that make a difference
\* to the split for key
IterationOrders(t, key) ==
  IF t.dir.global_depth_ = 0 THEN {<< >>}
  ELSE LET g == SplitDirectory(t, key)
       IN  Permutations(Contested(g.dir, g.lsb, GetPageToLocalDepth(g.dir)))

\* a table that asks for two pages in every split
CreatePageAndUpdateDirectory_TwoPages(t, key, rank) ==
  IF t.dir.global_depth_ = 0
    THEN LET d0 == IncrGlobalDepth(t.dir)
             d1 == SetBucketPageId(SetLocalDepth(d0, 0, 1), t.count, t.next)
             d2 == SetBucketPageId(SetLocalDepth(d1, 1, 1), t.count + 1, t.next + 1)
         IN  [t |-> [t EXCEPT !.dir = d2, !.count = @ + 2, !.next = @ + 2,
                              !.lsb = [p \in DOMAIN t.lsb \cup {t.next, t.next + 1} |->
                                         IF p \in DOMAIN t.lsb THEN t.lsb[p]
                                         ELSE p - t.next],
                              !.buckets = WithNewPage(WithNewPage(@, t.next), t.next + 1)],
              old_full_page_id |-> -1]
    ELSE LET g == SplitDirectory(t, key)
             d3 == UpdateBucketPointers(g.dir, g.lsb, GetPageToLocalDepth(g.dir), rank)
         IN  [t |-> [t EXCEPT !.dir = d3, !.lsb = g.lsb, !.count = @ + 1, !.next = @ + 2,
                              !.buckets = WithNewPage(WithNewPage(@, t.next), t.next + 1)],
              old_full_page_id |-> g.old_page_id]

\* ExtendibleHashTable::CreatePageAndUpdateDirectory with a pool that has a
\* frame for every new page: the table afterwards and *old_full_page_id
CreatePageAndUpdateDirectory(t, key, rank) ==
  IF t.dir.global_depth_ = 0
    THEN \* lines 181-198
      LET d0 == IncrGlobalDepth(t.dir)
          d1 == SetBucketPageId(SetLocalDepth(d0, 0, 1), t.count, t.next)
          d2 == SetBucketPageId(SetLocalDepth(d1, 1, 1), t.count + 1, t.next + 1)
          l1 == IF t.next \in DOMAIN t.lsb THEN t.lsb
                ELSE [p \in DOMAIN t.lsb \cup {t.next} |->
                        IF p = t.next THEN 0 ELSE t.lsb[p]]
          l2 == IF t.next + 1 \in DOMAIN l1 THEN l1
                ELSE [p \in DOMAIN l1 \cup {t.next + 1} |->
                        IF p = t.next + 1 THEN 1 ELSE l1[p]]
      IN  [t |-> [t EXCEPT !.dir = d2, !.lsb = l2, !.count = @ + 2, !.next = @ + 2,
                           !.buckets = WithNewPage(WithNewPage(@, t.next), t.next + 1)],
           old_full_page_id |-> -1]
    ELSE \* lines 203-267
      LET g == SplitDirectory(t, key)
          d3 == UpdateBucketPointers(g.dir, g.lsb, GetPageToLocalDepth(g.dir), rank)
      IN  [t |-> [t EXCEPT !.dir = d3, !.lsb = g.lsb, !.count = @ + 1, !.next = @ + 1,
                           !.buckets = WithNewPage(@, t.next)],
           old_full_page_id |-> g.old_page_id]

\* lines 161-171 of SplitInsert from the n-th pair on: each pair goes to the
\* bucket its directory slot names; the first refused pair ends the call.
\* "wild" tells that a slot named page 0, the directory page itself.
RECURSIVE Reinsert(_, _, _)
Reinsert(t, pairs_to_add, n) ==
  IF n > Len(pairs_to_add) THEN [t |-> t, ret |-> TRUE, wild |-> FALSE]
  ELSE LET the_pair == pairs_to_add[n]
           page_id == KeyToPageId(the_pair.key, t.dir)
       IN  IF page_id \notin DOMAIN t.buckets
             THEN [t |-> t, ret |-> FALSE, wild |-> TRUE]
             ELSE LET res == BucketInsert(t.buckets[page_id], the_pair.key, the_pair.value)
                  IN  IF ~res.ret
                        THEN [t |-> t, ret |-> FALSE, wild |-> FALSE]
                        ELSE Reinsert([t EXCEPT !.buckets[page_id] = res.bucket],
                                      pairs_to_add, n + 1)

\* ExtendibleHashTable::SplitInsert
SplitInsert(t, key, value, rank) ==
  LET c == CreatePageAndUpdateDirectory(t, key, rank)
      old_page_id == c.old_full_page_id
      gathered == IF old_page_id # -1 THEN GetAllElements(c.t.buckets[old_page_id])
                  ELSE << >>
      t1 == IF old_page_id # -1
              THEN [c.t EXCEPT !.buckets[old_page_id] = RemoveAllElements(@)]
              ELSE c.t
  IN  Reinsert(t1, Append(gathered, [key |-> key, value |-> value]), 1)

\* ExtendibleHashTable::GetValue: the values of key in the bucket its directory
\* slot names
GetValue(key) ==
  BucketGetValue(bucket_pages[KeyToPageId(key, directory_page)], key)

\* no call has been made on the hash table yet
NoHtCall == [op |-> "none", key |-> 0, value |-> 0, ret |-> FALSE]

\* calls on the hash table are not recorded
HtOff == [op |-> "off", key |-> 0, value |-> 0, ret |-> FALSE]

\* what ht_last becomes after call
HtLogged(call) == IF ht_last.op = "off" THEN ht_last ELSE call

\* the number of calls a run makes on the hash table
CallLimit == IF ht_last.op = "off" THEN MaxCalls ELSE MaxRecorded

\* a thread that is not inside a call on the hash table
HtIdle == [pc |-> "idle"]

InitHashTable ==
  /\ directory_page = [global_depth_ |-> 0,
                       local_depths_ |-> [i \in DirSlots |-> 0],
                       bucket_page_ids_ |-> [i \in DirSlots |-> 0]]
  /\ bucket_pages = [p \in {} |-> EmptyBucket]
  /\ lookup_page_lsb_value_ = [p \in {} |-> 0]
  /\ cur_pages_count = 0
  /\ ht_next_page_id = directory_page_id_ + 1
  /\ ht_pin_count = 1
  /\ ht_aborted = FALSE
  /\ ht_stored = {}
  /\ ht_calls = 0
  /\ ht_reader = HtIdle
  /\ ht_writer = HtIdle

\* no parallel pool has been constructed
NoParallelPool ==
  /\ instances_ = << >>
  /\ candidate_instance_index_ = 0
  /\ par_last = NoParCall
  /\ par_run = ParRunOff
  /\ locks_ = << >>
  /\ new_page_lock_ = NoThread
  /\ threads_ = << >>

\* no hash table has been constructed
NoHashTable ==
  /\ directory_page = << >>
  /\ bucket_pages = << >>
  /\ lookup_page_lsb_value_ = << >>
  /\ cur_pages_count = 0
  /\ ht_next_page_id = 0
  /\ ht_pin_count = 0
  /\ ht_assertions = FALSE
  /\ ht_aborted = FALSE
  /\ ht_stored = {}
  /\ ht_calls = 0
  /\ ht_last = HtOff
  /\ ht_reader = HtIdle
  /\ ht_writer = HtIdle
  /\ ht_pool_size = 0

\* no bucket page is exercised on its own
\* ------------------------------------------------------ LockManager
TxnIds == 0 .. (NumTxns - 1)
Rids == 0 .. (NumRids - 1)
NoTxn == -1

\* the TransactionState values the lock manager tests and sets
TransactionStates == {"GROWING", "SHRINKING", "COMMITTED", "ABORTED"}

\* a Transaction that holds no lock
NewTransaction(state) ==
  [state_ |-> state, shared_lock_set_ |-> {}, exclusive_lock_set_ |-> {}]

\* no lock manager is constructed
NoLockManager ==
  /\ txns_ = << >>
  /\ shared_locks_hold_by_txn_ = {}
  /\ exclusive_locks_hold_by_txn_ = << >>

NoBucketPage ==
  /\ bkt_page = << >>
  /\ bkt_removals = 0

\* ---------------------------------------------------------------- Init
\* BufferPoolManagerInstance(pool_size, disk_manager): every frame is a fresh
\* Page in the free list; LRUReplacer(pool_size): a vector of pool_size -1s.
InitPool ==
  /\ pages_ = [i \in Frames |->
                 [page_id |-> INVALID_PAGE_ID, pin_count |-> 0, is_dirty |-> FALSE,
                  data |-> 0]]
  /\ free_list_ = [i \in 1 .. PoolSize |-> i - 1]
  /\ lru_cache_ = [i \in 1 .. PoolSize |-> -1]
  /\ current_element_ = 0
  /\ next_page_id_ = instance_index_
  /\ disk = [p \in (INVALID_PAGE_ID .. MaxPageId) |-> 0]
  /\ obs_last = NoCall
  /\ obs_held = NoFrame
  /\ obs_pending = FALSE
  /\ obs_expect = -1
  /\ obs_order = << >>
  /\ NoParallelPool
  /\ NoHashTable
  /\ NoBucketPage
  /\ NoLockManager

\* calls are recorded in full, no client modifies page bytes
Init ==
  /\ InitPool
  /\ obs_calls = "all"
  /\ obs_watch = INVALID_PAGE_ID
  /\ obs_run = [kind |-> "fill", n |-> 0, u |-> NoFrame]

\* calls are recorded in brief, no client modifies page bytes
InitBrief ==
  /\ InitPool
  /\ obs_calls = "brief"
  /\ obs_watch = INVALID_PAGE_ID
  /\ obs_run = RunOff

\* of the calls of one operation, the page and the result are recorded
InitUnpin ==
  /\ InitPool
  /\ obs_calls = "UnpinPage"
  /\ obs_watch = INVALID_PAGE_ID
  /\ obs_run = RunOff

InitDelete ==
  /\ InitPool
  /\ obs_calls = "DeletePage"
  /\ obs_watch = INVALID_PAGE_ID
  /\ obs_run = RunOff

InitNew ==
  /\ InitPool
  /\ obs_calls = "NewPage"
  /\ obs_watch = INVALID_PAGE_ID
  /\ obs_run = RunOff

\* no single instance has been constructed on its own
NoInstance ==
  /\ pages_ = << >>
  /\ free_list_ = << >>
  /\ lru_cache_ = << >>
  /\ current_element_ = 0
  /\ next_page_id_ = 0
  /\ disk = << >>
  /\ obs_calls = "none"
  /\ obs_last = NoCall
  /\ obs_watch = INVALID_PAGE_ID
  /\ obs_held = NoFrame
  /\ obs_pending = FALSE
  /\ obs_expect = -1
  /\ obs_order = << >>
  /\ obs_run = RunOff

\* LRUReplacer(PoolSize) on its own: a vector of PoolSize -1s
InitReplacer ==
  /\ pages_ = << >>
  /\ free_list_ = << >>
  /\ lru_cache_ = [i \in 1 .. PoolSize |-> -1]
  /\ current_element_ = 0
  /\ next_page_id_ = 0
  /\ disk = << >>
  /\ obs_calls = "all"
  /\ obs_last = NoCall
  /\ obs_watch = INVALID_PAGE_ID
  /\ obs_held = NoFrame
  /\ obs_pending = FALSE
  /\ obs_expect = -1
  /\ obs_order = << >>
  /\ obs_run = RunOff
  /\ NoParallelPool
  /\ NoHashTable
  /\ NoBucketPage
  /\ NoLockManager

\* the parallel pool after its constructor
InitPar ==
  /\ NoInstance
  /\ InitParallel
  /\ NoHashTable
  /\ NoBucketPage
  /\ NoLockManager

\* a pool with a frame for the directory page and for every bucket page that
\* MaxDepth splits create
AmpleFrames == MaxDepth + 2

\* the hash table after its constructor, in a build with or without assertions
InitHash ==
  /\ NoInstance
  /\ NoParallelPool
  /\ InitHashTable
  /\ ht_assertions \in BOOLEAN
  /\ ht_last = HtOff
  /\ ht_pool_size = AmpleFrames
  /\ NoBucketPage
  /\ NoLockManager

\* the same, with every call and its result recorded
InitHashCalls ==
  /\ NoInstance
  /\ NoParallelPool
  /\ InitHashTable
  /\ ht_assertions \in BOOLEAN
  /\ ht_last = NoHtCall
  /\ ht_pool_size = AmpleFrames
  /\ NoBucketPage
  /\ NoLockManager

\* a bucket page of 1..MaxBucketArraySize slots, fresh from NewPage
InitBucket ==
  /\ NoInstance
  /\ NoParallelPool
  /\ NoHashTable
  /\ bkt_page \in {NewBucketPage(n) : n \in 1 .. MaxBucketArraySize}
  /\ bkt_removals = 0
  /\ NoLockManager

\* LockManager() and NumTxns transactions that hold no lock, each in the state
\* its transaction manager left it in
InitLock ==
  /\ NoInstance
  /\ NoParallelPool
  /\ NoHashTable
  /\ NoBucketPage
  /\ txns_ \in [TxnIds -> {NewTransaction(s) : s \in TransactionStates}]
  /\ shared_locks_hold_by_txn_ = {}
  /\ exclusive_locks_hold_by_txn_ = [r \in Rids |-> NoTxn]

\* a client modifies the bytes of one page; calls are not recorded
InitBytes ==
  /\ InitPool
  /\ obs_calls = "none"
  /\ obs_watch \in PageIds
  /\ obs_run = RunOff

\* a client modifies the bytes of one page; the FlushPage calls, or else the
\* FlushAllPages calls, are recorded
InitFlush ==
  /\ InitPool
  /\ obs_calls \in {"FlushPage", "FlushAllPages"}
  /\ obs_watch \in PageIds
  /\ obs_run = RunOff

\* ------------------------------------------------------------- actions
\* Page *NewPgImp(page_id_t *page_id)
NewPgImp ==
  LET v == GetVictimPageFromListOrReplacer(free_list_, lru_cache_, current_element_)
      f == v.frame
  IN IF AllPagesPinned(pages_) \/ f = NoFrame
       THEN \* return nullptr
            /\ obs_last' = Logged([NoCall EXCEPT !.op = "NewPage"])
            /\ obs_run' = RunAfterNewPage
            /\ UNCHANGED << pages_, free_list_, lru_cache_, current_element_,
                            next_page_id_, disk, obs_calls, obs_watch, par_vars, ht_vars, unit_vars, obs_held,
                            obs_pending, obs_expect, obs_order >>
       ELSE LET old == pages_[f].page_id
                a == AllocatePage(next_page_id_, num_instances_)
                new_page == a.page_id
            IN /\ next_page_id_ <= MaxPageId
               /\ next_page_id_' = a.next
               /\ free_list_' = v.fl
               /\ lru_cache_' = v.lc
               /\ current_element_' = v.ce
               /\ disk' = FlushPgImp(pages_, disk, old)
               /\ pages_' = InstallPage(pages_, f, new_page, 0)
               /\ obs_last' = Logged([NoCall EXCEPT !.op = "NewPage", !.page = new_page,
                                 !.ret = f, !.victim = f,
                                 !.victim_pin = pages_[f].pin_count,
                                 !.from_free = v.from_free, !.evicted = old,
                                 !.oldest = Oldest,
                                 !.wrote = FlushWrites(pages_, old)])
               /\ obs_held' = HeldAfterInstall(old, new_page, f)
               /\ obs_pending' = (obs_pending /\ old # obs_watch)
               /\ obs_order' = Ordered(RemoveAll(obs_order, f))
               /\ obs_run' = RunAfterNewPage
               \* a newly allocated page starts zeroed: nothing is expected of it
               /\ obs_expect' = IF new_page = obs_watch THEN -1 ELSE obs_expect
               /\ UNCHANGED << obs_calls, obs_watch, par_vars, ht_vars, unit_vars >>

\* Page *FetchPgImp(page_id_t page_id)
FetchPgImp(page_id) ==
  LET hit == FindPageByPageId(pages_, page_id)
      v == GetVictimPageFromListOrReplacer(free_list_, lru_cache_, current_element_)
      f == v.frame
  IN /\ obs_run' = RunOff
     /\ IF hit # NoFrame
          THEN \* 1.1 the page is resident
               /\ pages_' = FetchResident(pages_, hit)
               /\ obs_last' = Logged([NoCall EXCEPT !.op = "FetchPage", !.page = page_id,
                                 !.ret = hit, !.hit = TRUE,
                                 !.pre_pin = pages_[hit].pin_count,
                                 !.pre_dirty = pages_[hit].is_dirty])
               /\ obs_held' = IF page_id = obs_watch THEN hit ELSE obs_held
               /\ UNCHANGED << free_list_, lru_cache_, current_element_,
                               next_page_id_, disk, obs_calls, obs_watch, par_vars, ht_vars, unit_vars, obs_pending,
                               obs_expect, obs_order >>
        ELSE IF f = NoFrame
          THEN \* return nullptr
               /\ obs_last' = Logged([NoCall EXCEPT !.op = "FetchPage", !.page = page_id])
               /\ UNCHANGED << pages_, free_list_, lru_cache_, current_element_,
                               next_page_id_, disk, obs_calls, obs_watch, par_vars, ht_vars, unit_vars, obs_held,
                               obs_pending, obs_expect, obs_order >>
          ELSE LET old == pages_[f].page_id
                   d2 == IF pages_[f].is_dirty THEN FlushPgImp(pages_, disk, old)
                         ELSE disk
               IN /\ free_list_' = v.fl
                  /\ lru_cache_' = v.lc
                  /\ current_element_' = v.ce
                  /\ disk' = d2
                  /\ pages_' = InstallPage(pages_, f, page_id, d2[page_id])
                  /\ obs_last' = Logged([NoCall EXCEPT !.op = "FetchPage", !.page = page_id,
                                    !.ret = f, !.victim = f,
                                    !.victim_pin = pages_[f].pin_count,
                                    !.from_free = v.from_free, !.evicted = old,
                                    !.oldest = Oldest,
                                    !.wrote = IF pages_[f].is_dirty
                                                THEN FlushWrites(pages_, old) ELSE {}])
                  /\ obs_held' = HeldAfterInstall(old, page_id, f)
                  /\ obs_pending' = (obs_pending /\ old # obs_watch)
                  /\ obs_order' = Ordered(RemoveAll(obs_order, f))
                  /\ UNCHANGED << next_page_id_, obs_calls, obs_watch, par_vars, ht_vars, unit_vars, obs_expect >>

\* bool UnpinPgImp(page_id_t page_id, bool is_dirty)
UnpinPgImp(page_id, is_dirty) ==
  LET f == FindPageByPageId(pages_, page_id)
      ok == f # NoFrame /\ ~UnpinRefused(pages_[f])
      h == obs_held
      \* the bytes the client hands over with UnpinPage(page_id, true)
      handed == IF obs_pending
                  THEN IF is_dirty /\ pages_[h].page_id = page_id
                         THEN pages_[h].data ELSE -1
                  ELSE obs_expect
  IN /\ obs_last' = Logged([NoCall EXCEPT !.op = "UnpinPage", !.page = page_id,
                       !.ret = IF ok THEN 1 ELSE 0,
                       !.pre_pin = IF f # NoFrame THEN pages_[f].pin_count ELSE 0,
                       !.pre_dirty = IF f # NoFrame THEN pages_[f].is_dirty ELSE FALSE,
                       !.arg_dirty = is_dirty])
     /\ obs_run' = RunAfterUnpin(ok, f)
     /\ IF page_id = obs_watch /\ h # NoFrame
          THEN /\ obs_expect' = handed
               /\ obs_pending' = FALSE
               /\ obs_held' = NoFrame
          ELSE UNCHANGED << obs_expect, obs_pending, obs_held >>
     /\ IF ok
          THEN LET page == UnpinnedPage(pages_[f], is_dirty)
                   r == IF page.pin_count = 0
                          THEN Unpin(lru_cache_, current_element_, f)
                          ELSE [lc |-> lru_cache_, ce |-> current_element_]
               IN /\ pages_' = [pages_ EXCEPT ![f] = page]
                  /\ lru_cache_' = r.lc
                  /\ current_element_' = r.ce
                  /\ obs_order' = Ordered(IF page.pin_count = 0
                                                /\ ~InSeq(obs_order, f)
                                             THEN Append(obs_order, f)
                                             ELSE obs_order)
          ELSE UNCHANGED << pages_, lru_cache_, current_element_, obs_order >>
     /\ UNCHANGED << free_list_, next_page_id_, disk, obs_calls, obs_watch, par_vars, ht_vars, unit_vars >>

\* bool FlushPgImp(page_id_t page_id), called by a client
FlushPage(page_id) ==
  /\ disk' = FlushPgImp(pages_, disk, page_id)
  /\ obs_last' = Logged([NoCall EXCEPT !.op = "FlushPage", !.page = page_id,
                    !.ret = IF FindPageByPageId(pages_, page_id) # NoFrame
                              THEN 1 ELSE 0,
                    !.wrote = FlushWrites(pages_, page_id)])
  /\ obs_run' = RunOff
  /\ UNCHANGED << pages_, free_list_, lru_cache_, current_element_, next_page_id_,
                  obs_calls, obs_watch, par_vars, ht_vars, unit_vars, obs_held, obs_pending, obs_expect, obs_order >>

\* void FlushAllPgsImp(), called by a client
FlushAllPages ==
  /\ disk' = FlushAllPgsImp(pages_, disk)
  /\ obs_last' = Logged([NoCall EXCEPT !.op = "FlushAllPages", !.ret = 1])
  /\ obs_run' = RunOff
  /\ UNCHANGED << pages_, free_list_, lru_cache_, current_element_, next_page_id_,
                  obs_calls, obs_watch, par_vars, ht_vars, unit_vars, obs_held, obs_pending, obs_expect, obs_order >>

\* bool DeletePgImp(page_id_t page_id)
DeletePgImp(page_id) ==
  LET f == FindPageByPageId(pages_, page_id)
  IN /\ obs_run' = RunOff
     /\ IF f = NoFrame \/ DeleteRefused(pages_[f])
          THEN /\ obs_last' = Logged([NoCall EXCEPT !.op = "DeletePage", !.page = page_id,
                                 !.ret = IF f = NoFrame THEN 1 ELSE 0])
               /\ UNCHANGED << pages_, free_list_, lru_cache_, current_element_,
                               next_page_id_, disk, obs_calls, obs_watch, par_vars, ht_vars, unit_vars, obs_held,
                               obs_pending, obs_expect, obs_order >>
          ELSE LET r == DeleteInReplacer(lru_cache_, current_element_, f)
               IN /\ disk' = IF pages_[f].is_dirty
                               THEN FlushPgImp(pages_, disk, page_id) ELSE disk
                  /\ pages_' = [pages_ EXCEPT ![f] = DeletedPage(pages_[f])]
                  /\ free_list_' = Append(free_list_, f)
                  /\ lru_cache_' = r.lc
                  /\ current_element_' = r.ce
                  /\ obs_last' = Logged([NoCall EXCEPT !.op = "DeletePage",
                                    !.page = page_id, !.ret = 1, !.freed = f,
                                    !.pre_dirty = pages_[f].is_dirty,
                                    !.wrote = IF pages_[f].is_dirty
                                                THEN FlushWrites(pages_, page_id)
                                                ELSE {}])
                  /\ obs_held' = IF page_id = obs_watch THEN NoFrame ELSE obs_held
                  /\ obs_pending' = (obs_pending /\ page_id # obs_watch)
                  /\ obs_expect' = IF page_id = obs_watch THEN -1 ELSE obs_expect
                  /\ obs_order' = Ordered(RemoveAll(obs_order, f))
                  /\ UNCHANGED << next_page_id_, obs_calls, obs_watch, par_vars, ht_vars, unit_vars >>

\* The client writes bytes into the page it was handed (Page::GetData) while
\* the frame still holds that page.
ModifyPage(v) ==
  /\ obs_held # NoFrame
  /\ pages_[obs_held].page_id = obs_watch
  /\ pages_[obs_held].data # v
  /\ pages_' = [pages_ EXCEPT ![obs_held].data = v]
  /\ obs_pending' = TRUE
  /\ obs_expect' = -1
  /\ UNCHANGED << free_list_, lru_cache_, current_element_, next_page_id_, disk,
                  obs_last, obs_calls, obs_watch, par_vars, ht_vars, unit_vars, obs_held, obs_order, obs_run >>

\* Page *ParallelBufferPoolManager::NewPgImp(page_id_t *page_id)
ParNewPgImp ==
  LET start == candidate_instance_index_
      try(i) == InstNewPgImp(instances_[CandidateIndex(start, i)], NumInstances)
      hits == {i \in 0 .. (WalkLength - 1) : try(i).ret # NoFrame}
  IN IF hits = {}
       THEN \* every instance of the walk returned nullptr
            /\ par_last' = [NoParCall EXCEPT !.op = "NewPage", !.start = start,
                              !.refused = {CandidateIndex(start, i) :
                                             i \in 0 .. (WalkLength - 1)}]
            /\ par_run' = IF par_run.kind = "fill" /\ par_run.calls < NumInstances * PoolSize
                             THEN [par_run EXCEPT !.calls = par_run.calls + 1]
                             ELSE ParRunOff
            /\ UNCHANGED << instances_, candidate_instance_index_ >>
       ELSE LET i == Min(hits)
                k == CandidateIndex(start, i)
                r == try(i)
            IN /\ r.page <= ParMaxPageId
               /\ instances_' = [instances_ EXCEPT ![k] = r.inst]
               /\ candidate_instance_index_' = CursorAfterNewPage(start, k)
               /\ par_last' = [NoParCall EXCEPT !.op = "NewPage", !.page = r.page,
                                 !.ret = r.ret, !.inst = k, !.start = start,
                                 !.refused = {CandidateIndex(start, j) : j \in 0 .. (i - 1)}]
               /\ par_run' = IF par_run.kind = "fill" /\ par_run.calls < NumInstances * PoolSize
                                THEN [par_run EXCEPT !.calls = par_run.calls + 1,
                                                     !.ids = par_run.ids \cup {r.page}]
                                ELSE ParRunOff

\* Page *ParallelBufferPoolManager::FetchPgImp(page_id_t page_id)
ParFetchPgImp(page_id) ==
  LET k == GetBufferPoolManager(page_id)
      r == InstFetchPgImp(instances_[k], page_id)
  IN /\ instances_' = [instances_ EXCEPT ![k] = r.inst]
     /\ par_last' = ParLogged([NoParCall EXCEPT !.op = "FetchPage", !.page = page_id,
                       !.ret = r.ret, !.inst = k])
     /\ par_run' = ParRunOff
     /\ UNCHANGED candidate_instance_index_

\* bool ParallelBufferPoolManager::UnpinPgImp(page_id_t page_id, bool is_dirty)
ParUnpinPgImp(page_id, is_dirty) ==
  LET k == GetBufferPoolManager(page_id)
      r == InstUnpinPgImp(instances_[k], page_id, is_dirty)
  IN /\ instances_' = [instances_ EXCEPT ![k] = r.inst]
     /\ par_last' = ParLogged([NoParCall EXCEPT !.op = "UnpinPage", !.page = page_id,
                       !.ret = IF r.ret THEN 1 ELSE 0, !.inst = k])
     /\ par_run' = ParRunOff
     /\ UNCHANGED candidate_instance_index_

\* bool ParallelBufferPoolManager::FlushPgImp(page_id_t page_id): no page is
\* dirty, nothing is written
ParFlushPgImp(page_id) ==
  LET k == GetBufferPoolManager(page_id)
  IN /\ par_last' = ParLogged([NoParCall EXCEPT !.op = "FlushPage", !.page = page_id,
                       !.ret = IF FindPageByPageId(instances_[k].pages, page_id) # NoFrame
                                 THEN 1 ELSE 0,
                       !.inst = k])
     /\ par_run' = ParRunOff
     /\ UNCHANGED << instances_, candidate_instance_index_ >>

\* bool ParallelBufferPoolManager::DeletePgImp(page_id_t page_id)
ParDeletePgImp(page_id) ==
  LET k == GetBufferPoolManager(page_id)
      r == InstDeletePgImp(instances_[k], page_id)
  IN /\ instances_' = [instances_ EXCEPT ![k] = r.inst]
     /\ par_last' = ParLogged([NoParCall EXCEPT !.op = "DeletePage", !.page = page_id,
                       !.ret = IF r.ret THEN 1 ELSE 0, !.inst = k])
     /\ par_run' = ParRunOff
     /\ UNCHANGED candidate_instance_index_

\* ---- the parallel pool called by several threads.  A call is cut at its
\* mutex acquisitions: a thread at pc "alloc" waits for new_page_lock_, at pc
\* "lock" for locks_[k]; at pc "call" it holds locks_[k] and runs the operation
\* of instance k, after which the lock guards of the finished scope are
\* released.  The page of a page-addressed call matters to the locks only
\* through its instance k; the page is drawn when the call runs.
seq_vars == << candidate_instance_index_, par_last, par_run >>

\* FetchPgImp, UnpinPgImp, FlushPgImp, DeletePgImp up to their lock_guard
\* (lines 45-48, 54-57, 62-65, 103-106), for a page of instance k
BeginPageOp(t, k) ==
  /\ threads_[t].pc = "idle"
  /\ threads_' = [threads_ EXCEPT ![t] = [pc |-> "lock", kind |-> "page", i |-> 0, k |-> k]]
  /\ UNCHANGED << instances_, locks_, new_page_lock_, seq_vars >>

\* NewPgImp up to its first lock_guard (line 78)
BeginNewPage(t) ==
  /\ threads_[t].pc = "idle"
  /\ threads_' = [threads_ EXCEPT ![t] = [pc |-> "alloc", kind |-> "new", i |-> 0, k |-> 0]]
  /\ UNCHANGED << instances_, locks_, new_page_lock_, seq_vars >>

\* FlushAllPgsImp up to the lock_guard of its first iteration (line 113)
BeginFlushAll(t) ==
  /\ threads_[t].pc = "idle"
  /\ threads_' = [threads_ EXCEPT ![t] = [pc |-> "lock", kind |-> "flushall", i |-> 0, k |-> 0]]
  /\ UNCHANGED << instances_, locks_, new_page_lock_, seq_vars >>

\* NewPgImp line 78 acquires new_page_lock_; line 80 computes the first candidate
AcquireNewPageLock(t) ==
  /\ threads_[t].pc = "alloc"
  /\ MutexFree(new_page_lock_)
  /\ new_page_lock_' = t
  /\ threads_' = [threads_ EXCEPT ![t] =
                     [pc |-> "lock", kind |-> "new", i |-> 0,
                      k |-> CandidateIndex(candidate_instance_index_, 0)]]
  /\ UNCHANGED << instances_, locks_, seq_vars >>

\* lines 48, 57, 65, 81, 106, 113: the lock_guard on locks_[k]
AcquireInstanceLock(t) ==
  /\ threads_[t].pc = "lock"
  /\ MutexFree(locks_[threads_[t].k])
  /\ locks_' = [locks_ EXCEPT ![threads_[t].k] = t]
  /\ threads_' = [threads_ EXCEPT ![t].pc = "call"]
  /\ UNCHANGED << instances_, new_page_lock_, seq_vars >>

\* the page-addressed call runs on its instance and returns
CallPageOp(t, r) ==
  /\ threads_[t].pc = "call"
  /\ threads_[t].kind = "page"
  /\ instances_' = [instances_ EXCEPT ![threads_[t].k] = r.inst]
  /\ locks_' = Unlocked(locks_, threads_[t].k)
  /\ threads_' = [threads_ EXCEPT ![t] = Idle]
  /\ UNCHANGED << new_page_lock_, seq_vars >>

\* FetchPgImp line 49
ThreadFetchPage(t, page_id) ==
  /\ GetBufferPoolManager(page_id) = threads_[t].k
  /\ CallPageOp(t, InstFetchPgImp(instances_[threads_[t].k], page_id))

\* UnpinPgImp line 58
ThreadUnpinPage(t, page_id) ==
  /\ GetBufferPoolManager(page_id) = threads_[t].k
  /\ CallPageOp(t, InstUnpinPgImp(instances_[threads_[t].k], page_id, FALSE))

\* FlushPgImp line 66: no page is dirty, nothing is written
ThreadFlushPage(t, page_id) ==
  /\ GetBufferPoolManager(page_id) = threads_[t].k
  /\ CallPageOp(t, [inst |-> instances_[threads_[t].k]])

\* DeletePgImp line 107
ThreadDeletePage(t, page_id) ==
  /\ GetBufferPoolManager(page_id) = threads_[t].k
  /\ CallPageOp(t, InstDeletePgImp(instances_[threads_[t].k], page_id))

\* NewPgImp lines 83-96: one iteration of the walk, and line 98 after the last
ThreadNewPage(t) ==
  LET k == threads_[t].k
      i == threads_[t].i
      r == InstNewPgImp(instances_[k], NumInstances)
  IN /\ threads_[t].pc = "call"
     /\ threads_[t].kind = "new"
     /\ UNCHANGED << par_last, par_run >>
     /\ IF r.ret = NoFrame
          THEN /\ locks_' = WalkReleased(locks_, k)
               /\ UNCHANGED << instances_, candidate_instance_index_ >>
               /\ IF i + 1 < WalkLength
                    THEN /\ threads_' = [threads_ EXCEPT ![t] =
                                            [pc |-> "lock", kind |-> "new", i |-> i + 1,
                                             k |-> CandidateIndex(candidate_instance_index_,
                                                                  i + 1)]]
                         /\ UNCHANGED new_page_lock_
                    ELSE /\ threads_' = [threads_ EXCEPT ![t] = Idle]
                         /\ new_page_lock_' = NoThread
          ELSE /\ r.page <= ParMaxPageId
               /\ instances_' = [instances_ EXCEPT ![k] = r.inst]
               /\ candidate_instance_index_' =
                    CursorAfterNewPage(candidate_instance_index_, k)
               /\ locks_' = Unlocked(locks_, k)
               /\ new_page_lock_' = NoThread
               /\ threads_' = [threads_ EXCEPT ![t] = Idle]

\* FlushAllPgsImp lines 113-114: one iteration; no page is dirty
ThreadFlushAll(t) ==
  LET k == threads_[t].k
  IN /\ threads_[t].pc = "call"
     /\ threads_[t].kind = "flushall"
     /\ locks_' = Unlocked(locks_, k)
     /\ threads_' = [threads_ EXCEPT ![t] =
                        IF k + 1 < NumInstances
                          THEN [pc |-> "lock", kind |-> "flushall", i |-> k + 1, k |-> k + 1]
                          ELSE Idle]
     /\ UNCHANGED << instances_, new_page_lock_, seq_vars >>

\* page ids instance k can still hand out below the cap of the model
IdsLeft(k) ==
  IF instances_[k].next > ParMaxPageId THEN 0
  ELSE (ParMaxPageId - instances_[k].next) \div NumInstances + 1

\* NewPgImp is called while every instance has a page id left for each
\* NewPage call that is under way and for this one
BeginNewPageWithinIds(t) ==
  /\ \A k \in Instances :
       Cardinality({u \in Threads : threads_[u].kind = "new"}) < IdsLeft(k)
  /\ BeginNewPage(t)

\* the single instance and what its callers observe
bpi_vars == << pages_, free_list_, lru_cache_, current_element_, next_page_id_, disk,
               obs_calls, obs_last, obs_watch, obs_held, obs_pending, obs_expect,
               obs_order, obs_run >>

\* everything outside the parallel pool
pool_vars == << bpi_vars, ht_vars, unit_vars >>

\* page ids the instances of the parallel pool have handed out
ParAllocated == {p \in ParPageIds : p < instances_[GetBufferPoolManager(p)].next}

\* the mutexes and the threads: untouched while one caller makes whole calls
lock_vars == << locks_, new_page_lock_, threads_ >>

\* one caller of the parallel pool, one call at a time, that fetches only
\* pages the pool has allocated
NextPar ==
  \/ ParNewPgImp /\ UNCHANGED << pool_vars, lock_vars >>
  \/ \E p \in ParAllocated : ParFetchPgImp(p) /\ UNCHANGED << pool_vars, lock_vars >>
  \/ \E p \in ParPageIds : ParUnpinPgImp(p, FALSE) /\ UNCHANGED << pool_vars, lock_vars >>
  \/ \E p \in ParPageIds : ParFlushPgImp(p) /\ UNCHANGED << pool_vars, lock_vars >>
  \/ \E p \in ParPageIds : ParDeletePgImp(p) /\ UNCHANGED << pool_vars, lock_vars >>

\* a caller of the parallel pool that only allocates and unpins
NextParRun ==
  \/ ParNewPgImp /\ UNCHANGED << pool_vars, lock_vars >>
  \/ \E p \in ParPageIds : ParUnpinPgImp(p, FALSE) /\ UNCHANGED << pool_vars, lock_vars >>

\* pages resident in their instance of the parallel pool
ParResident ==
  {p \in ParPageIds :
     FindPageByPageId(instances_[GetBufferPoolManager(p)].pages, p) # NoFrame}

\* threads that allocate, flush and fetch resident pages
NextLocks ==
  \E t \in Threads :
    \/ \E k \in Instances : BeginPageOp(t, k) /\ UNCHANGED pool_vars
    \/ BeginNewPage(t) /\ UNCHANGED pool_vars
    \/ BeginFlushAll(t) /\ UNCHANGED pool_vars
    \/ AcquireNewPageLock(t) /\ UNCHANGED pool_vars
    \/ AcquireInstanceLock(t) /\ UNCHANGED pool_vars
    \/ \E p \in ParResident : ThreadFetchPage(t, p) /\ UNCHANGED pool_vars
    \/ \E p \in ParPageIds : ThreadFlushPage(t, p) /\ UNCHANGED pool_vars
    \/ ThreadNewPage(t) /\ UNCHANGED pool_vars
    \/ ThreadFlushAll(t) /\ UNCHANGED pool_vars

\* threads calling every operation of the parallel pool concurrently; they
\* fetch pages that are resident
NextThreads ==
  \E t \in Threads :
    \/ \E k \in Instances : BeginPageOp(t, k) /\ UNCHANGED pool_vars
    \/ BeginNewPage(t) /\ UNCHANGED pool_vars
    \/ BeginFlushAll(t) /\ UNCHANGED pool_vars
    \/ AcquireNewPageLock(t) /\ UNCHANGED pool_vars
    \/ AcquireInstanceLock(t) /\ UNCHANGED pool_vars
    \/ \E p \in ParResident : ThreadFetchPage(t, p) /\ UNCHANGED pool_vars
    \/ \E p \in ParPageIds : ThreadUnpinPage(t, p) /\ UNCHANGED pool_vars
    \/ \E p \in ParPageIds : ThreadFlushPage(t, p) /\ UNCHANGED pool_vars
    \/ \E p \in ParPageIds : ThreadDeletePage(t, p) /\ UNCHANGED pool_vars
    \/ ThreadNewPage(t) /\ UNCHANGED pool_vars
    \/ ThreadFlushAll(t) /\ UNCHANGED pool_vars

\* the steps thread t takes inside a call it has begun
ThreadStep(t) ==
  \/ AcquireNewPageLock(t) /\ UNCHANGED pool_vars
  \/ AcquireInstanceLock(t) /\ UNCHANGED pool_vars
  \/ \E p \in ParResident : ThreadFetchPage(t, p) /\ UNCHANGED pool_vars
  \/ \E p \in ParPageIds : ThreadUnpinPage(t, p) /\ UNCHANGED pool_vars
  \/ \E p \in ParPageIds : ThreadFlushPage(t, p) /\ UNCHANGED pool_vars
  \/ \E p \in ParPageIds : ThreadDeletePage(t, p) /\ UNCHANGED pool_vars
  \/ ThreadNewPage(t) /\ UNCHANGED pool_vars
  \/ ThreadFlushAll(t) /\ UNCHANGED pool_vars

\* threads that call every operation of the parallel pool whenever they like
\* and go on inside a call they have begun
NextFair ==
  \E t \in Threads :
    \/ \E k \in Instances : BeginPageOp(t, k) /\ UNCHANGED pool_vars
    \/ BeginNewPageWithinIds(t) /\ UNCHANGED pool_vars
    \/ BeginFlushAll(t) /\ UNCHANGED pool_vars
    \/ ThreadStep(t)

\* ------------------------------------------------- replacer calls
\* the frame ids its callers hand to a replacer of PoolSize frames: one more
\* than it has room for
ReplacerFrames == 0 .. PoolSize

\* a call on the replacer: the frame is the argument of Pin and Unpin and the
\* frame Victim hands out; size is Size() before the call
ReplacerCall(op, frame, ret) ==
  [op |-> op, frame |-> frame, ret |-> ret, size |-> current_element_]

\* bool LRUReplacer::Victim(frame_id_t *frame_id)
ReplacerVictim ==
  LET v == Victim(lru_cache_, current_element_)
  IN  /\ lru_cache_' = v.lc
      /\ current_element_' = v.ce
      /\ obs_last' = ReplacerCall("Victim", v.frame, v.ok)

\* void LRUReplacer::Pin(frame_id_t frame_id)
ReplacerPin(f) ==
  LET r == Pin(lru_cache_, current_element_, f)
  IN  /\ lru_cache_' = r.lc
      /\ current_element_' = r.ce
      /\ obs_last' = ReplacerCall("Pin", f, TRUE)

\* void LRUReplacer::Unpin(frame_id_t frame_id)
ReplacerUnpin(f) ==
  LET r == Unpin(lru_cache_, current_element_, f)
  IN  /\ lru_cache_' = r.lc
      /\ current_element_' = r.ce
      /\ obs_last' = ReplacerCall("Unpin", f, TRUE)

\* what a call on the replacer leaves alone
replacer_rest == << pages_, free_list_, next_page_id_, disk, obs_calls, obs_watch, obs_held,
                   obs_pending, obs_expect, obs_order, obs_run, par_vars, ht_vars, unit_vars >>

\* the replacer under any sequence of Victim, Pin and Unpin calls
NextReplacer ==
  \/ ReplacerVictim /\ UNCHANGED replacer_rest
  \/ \E f \in ReplacerFrames : ReplacerPin(f) /\ UNCHANGED replacer_rest
  \/ \E f \in ReplacerFrames : ReplacerUnpin(f) /\ UNCHANGED replacer_rest

\* ------------------------------------------------- bucket page calls
\* The page compares keys and values for equality only, so its callers
\* introduce keys in increasing order and give a second value to key 0 only.
PairsWritten(p) ==
  {<< p.array_[i].key, p.array_[i].value >> : i \in {j \in SlotsOf(p) : IsOccupied(p, j)}}

CallerInserts(p, key, value) ==
  /\ key = 0 \/ \E v \in Values : << key - 1, v >> \in PairsWritten(p)
  /\ value = 0 \/ (key = 0 /\ << key, value - 1 >> \in PairsWritten(p))

PageKeys == 0 .. MaxBucketArraySize

BucketPageInsert(key, value) ==
  /\ CallerInserts(bkt_page, key, value)
  /\ bkt_page' = PageInsert(bkt_page, key, value).page
  /\ UNCHANGED bkt_removals

BucketPageRemove(key, value) ==
  /\ bkt_removals < MaxRemovals
  /\ bkt_page' = PageRemove(bkt_page, key, value).page
  /\ bkt_removals' = bkt_removals + 1

BucketPageRemoveAt(bucket_idx) ==
  /\ bkt_removals < MaxRemovals
  /\ bkt_page' = RemoveAt(bkt_page, bucket_idx)
  /\ bkt_removals' = bkt_removals + 1

BucketPageRemoveAllElements ==
  /\ bkt_removals < MaxRemovals
  /\ bkt_page' = PageRemoveAllElements(bkt_page)
  /\ bkt_removals' = bkt_removals + 1

\* a bucket page under any sequence of calls of its callers
NextBucket ==
  \/ \E key \in PageKeys, value \in Values :
       BucketPageInsert(key, value) /\ UNCHANGED << bpi_vars, par_vars, ht_vars, ht_pool_size, lm_vars >>
  \/ \E key \in PageKeys, value \in Values :
       BucketPageRemove(key, value) /\ UNCHANGED << bpi_vars, par_vars, ht_vars, ht_pool_size, lm_vars >>
  \/ \E i \in SlotsOf(bkt_page) :
       BucketPageRemoveAt(i) /\ UNCHANGED << bpi_vars, par_vars, ht_vars, ht_pool_size, lm_vars >>
  \/ BucketPageRemoveAllElements /\ UNCHANGED << bpi_vars, par_vars, ht_vars, ht_pool_size, lm_vars >>

\* ------------------------------------------------- lock manager calls
\* bool LockManager::LockShared(Transaction *txn, const RID &rid)
LockShared(txn, rid) ==
  /\ txns_[txn].state_ # "ABORTED"
  /\ txns_' = IF txns_[txn].state_ = "SHRINKING"
                THEN \* SetState(ABORTED), throw TransactionAbortException
                     [txns_ EXCEPT ![txn].state_ = "ABORTED"]
                ELSE [txns_ EXCEPT ![txn].state_ = "GROWING",
                                   ![txn].shared_lock_set_ = @ \cup {rid}]
  /\ UNCHANGED << shared_locks_hold_by_txn_, exclusive_locks_hold_by_txn_ >>

\* bool LockManager::LockExclusive(Transaction *txn, const RID &rid)
LockExclusive(txn, rid) ==
  LET old_transcation == exclusive_locks_hold_by_txn_[rid]
  IN /\ txns_[txn].state_ # "ABORTED"
     \* in the shrinking phase the call throws and changes nothing
     /\ txns_[txn].state_ # "SHRINKING"
     /\ rid \notin shared_locks_hold_by_txn_
     /\ UNCHANGED shared_locks_hold_by_txn_
     /\ IF old_transcation = NoTxn
          THEN /\ exclusive_locks_hold_by_txn_' =
                    [exclusive_locks_hold_by_txn_ EXCEPT ![rid] = txn]
               /\ txns_' = [txns_ EXCEPT ![txn].state_ = "GROWING",
                                         ![txn].exclusive_lock_set_ = @ \cup {rid}]
          ELSE \* rob the lock of a younger transaction
               /\ txn < old_transcation
               /\ txns_' = [txns_ EXCEPT
                              ![old_transcation].state_ = "ABORTED",
                              ![old_transcation].exclusive_lock_set_ = @ \ {rid},
                              ![txn].state_ = "GROWING",
                              ![txn].exclusive_lock_set_ = @ \cup {rid}]
               /\ exclusive_locks_hold_by_txn_' =
                    [exclusive_locks_hold_by_txn_ EXCEPT ![rid] = txn]

\* bool LockManager::LockUpgrade(Transaction *txn, const RID &rid): an
\* aborted transaction goes through; in the shrinking phase the call throws
LockUpgrade(txn, rid) ==
  /\ txns_[txn].state_ # "SHRINKING"
  /\ txns_' = [txns_ EXCEPT ![txn].shared_lock_set_ = @ \ {rid},
                            ![txn].exclusive_lock_set_ = @ \cup {rid}]
  /\ UNCHANGED << shared_locks_hold_by_txn_, exclusive_locks_hold_by_txn_ >>

\* bool LockManager::Unlock(Transaction *txn, const RID &rid)
Unlock(txn, rid) ==
  /\ txns_' = [txns_ EXCEPT
                 ![txn].state_ = IF @ \in {"COMMITTED", "ABORTED"} THEN @
                                 ELSE "SHRINKING",
                 ![txn].shared_lock_set_ = @ \ {rid},
                 ![txn].exclusive_lock_set_ = @ \ {rid}]
  /\ UNCHANGED << shared_locks_hold_by_txn_, exclusive_locks_hold_by_txn_ >>

\* what a call on the lock manager leaves alone
lock_rest == << bpi_vars, par_vars, ht_vars, bkt_page, bkt_removals, ht_pool_size >>

\* the lock manager under any sequence of calls by its transactions
NextLock ==
  \E txn \in TxnIds, rid \in Rids :
    \/ LockShared(txn, rid) /\ UNCHANGED lock_rest
    \/ LockExclusive(txn, rid) /\ UNCHANGED lock_rest
    \/ LockUpgrade(txn, rid) /\ UNCHANGED lock_rest
    \/ Unlock(txn, rid) /\ UNCHANGED lock_rest

\* ------------------------------------------------- hash table calls
\* the hash table and what its callers observe, but for the call counter
table_vars == << directory_page, bucket_pages, lookup_page_lsb_value_, cur_pages_count,
                ht_next_page_id, ht_pin_count, ht_assertions, ht_aborted, ht_stored >>

\* the variables take the table t
TableBecomes(t) ==
  /\ directory_page' = t.dir
  /\ bucket_pages' = t.buckets
  /\ lookup_page_lsb_value_' = t.lsb
  /\ cur_pages_count' = t.count
  /\ ht_next_page_id' = t.next

\* ExtendibleHashTable::GetGlobalDepth (lines 381-388), called at line 180:
\* a build with assertions unpins the directory page and aborts when
\* UnpinPage refuses (pin count 0); a build with NDEBUG drops the call
GetGlobalDepthAborts == ht_assertions /\ ht_pin_count <= 0

PinCountAfterGetGlobalDepth == IF ht_assertions THEN ht_pin_count - 1 ELSE ht_pin_count

\* Insert by way of SplitInsert (lines 111 and 127).  The process ends when
\* the assertion of GetGlobalDepth fails or the directory cannot grow; calls
\* that would use the directory page as a bucket page are left out.
InsertSplitting(key, value) ==
  IF GetGlobalDepthAborts \/ IncrGlobalDepthFails(directory_page)
    THEN /\ ht_aborted' = TRUE
         /\ UNCHANGED << directory_page, bucket_pages, lookup_page_lsb_value_,
                         cur_pages_count, ht_next_page_id, ht_pin_count,
                         ht_assertions, ht_stored, ht_last >>
    ELSE \E rank \in IterationOrders(Table, key) :
           LET r == SplitInsert(Table, key, value, rank)
           IN  /\ ~r.wild
               /\ TableBecomes(r.t)
               /\ ht_pin_count' = PinCountAfterGetGlobalDepth
               /\ ht_stored' = IF r.ret THEN ht_stored \cup {<< key, value >>}
                               ELSE ht_stored
               /\ ht_last' = HtLogged([op |-> "Insert", key |-> key, value |-> value,
                                       ret |-> r.ret])
               /\ UNCHANGED << ht_assertions, ht_aborted >>

\* ExtendibleHashTable::Insert
HtInsert(key, value) ==
  /\ ~ht_aborted
  /\ ht_calls < CallLimit
  /\ ht_calls' = ht_calls + 1
  /\ UNCHANGED << ht_reader, ht_writer >>
  /\ IF directory_page.global_depth_ = 0
       THEN InsertSplitting(key, value)
       ELSE LET page_id == KeyToPageId(key, directory_page)
            IN  /\ page_id \in DOMAIN bucket_pages
                /\ IF KeyAndValueExistInArray(bucket_pages[page_id], key, value)
                     THEN /\ ht_last' = HtLogged([op |-> "Insert", key |-> key,
                                                  value |-> value, ret |-> FALSE])
                          /\ UNCHANGED table_vars
                     ELSE IF BucketIsFull(bucket_pages[page_id])
                       THEN InsertSplitting(key, value)
                       ELSE LET res == BucketInsert(bucket_pages[page_id], key, value)
                            IN  /\ bucket_pages' = [bucket_pages EXCEPT ![page_id] = res.bucket]
                                /\ ht_stored' = IF res.ret
                                                  THEN ht_stored \cup {<< key, value >>}
                                                  ELSE ht_stored
                                /\ ht_last' = HtLogged([op |-> "Insert", key |-> key,
                                                        value |-> value, ret |-> res.ret])
                                /\ UNCHANGED << directory_page, lookup_page_lsb_value_,
                                                cur_pages_count, ht_next_page_id,
                                                ht_pin_count, ht_assertions, ht_aborted >>

\* ExtendibleHashTable::Remove; Merge does nothing
HtRemove(key, value) ==
  /\ ~ht_aborted
  /\ ht_calls < CallLimit
  /\ ht_calls' = ht_calls + 1
  /\ UNCHANGED << ht_reader, ht_writer >>
  /\ LET page_id == KeyToPageId(key, directory_page)
         res == BucketRemove(bucket_pages[page_id], key, value)
     IN  /\ page_id \in DOMAIN bucket_pages
         /\ bucket_pages' = [bucket_pages EXCEPT ![page_id] = res.bucket]
         /\ ht_stored' = ht_stored \ {<< key, value >>}
         /\ ht_last' = HtLogged([op |-> "Remove", key |-> key, value |-> value,
                                 ret |-> res.ret])
         /\ UNCHANGED << directory_page, lookup_page_lsb_value_, cur_pages_count,
                         ht_next_page_id, ht_pin_count, ht_assertions, ht_aborted >>

\* the hash table under any sequence of up to MaxCalls Insert and Remove calls
NextHash ==
  \/ \E key \in Keys, value \in Values :
       HtInsert(key, value) /\ UNCHANGED << bpi_vars, par_vars, unit_vars >>
  \/ \E key \in Keys, value \in Values :
       HtRemove(key, value) /\ UNCHANGED << bpi_vars, par_vars, unit_vars >>

Next ==
  \/ NewPgImp
  \/ \E p \in PageIds : FetchPgImp(p)
  \/ \E p \in PageIds, d \in BOOLEAN : UnpinPgImp(p, d)
  \/ \E p \in PageIds : FlushPage(p)
  \/ \E p \in PageIds : DeletePgImp(p)

\* page ids AllocatePage has handed out
Allocated == {p \in PageIds : p < next_page_id_}

\* clients that fetch only pages the pool has allocated, one of them writing
NextBytes ==
  \/ NewPgImp
  \/ \E p \in Allocated : FetchPgImp(p)
  \/ \E p \in PageIds, d \in BOOLEAN : UnpinPgImp(p, d)
  \/ \E p \in PageIds : FlushPage(p)
  \/ \E p \in PageIds : DeletePgImp(p)
  \/ \E v \in DataVals : ModifyPage(v)

\* the same clients, one of them also calling FlushAllPages
NextFlush ==
  \/ NextBytes
  \/ FlushAllPages

\* a client that only allocates and unpins
NextRun ==
  \/ NewPgImp
  \/ \E p \in PageIds, d \in BOOLEAN : UnpinPgImp(p, d)

\* the pool under any sequence of calls
Spec == Init /\ [][Next]_vars

\* the same, with less of each call recorded
SpecBrief == InitBrief /\ [][Next]_vars

\* the same, with the page and the result of every UnpinPage call recorded
SpecUnpin == InitUnpin /\ [][Next]_vars

\* the same, with the page and the result of every DeletePage call recorded
SpecDelete == InitDelete /\ [][Next]_vars

\* the same, with the page and the result of every NewPage call recorded
SpecNew == InitNew /\ [][Next]_vars

\* the pool under any sequence of NewPage and UnpinPage calls
SpecRun == Init /\ [][NextRun]_vars

\* the pool under any sequence of calls, with a client writing one page's bytes
SpecBytes == InitBytes /\ [][NextBytes]_vars

\* the same, with FlushAllPages calls and the flush calls recorded
SpecFlush == InitFlush /\ [][NextFlush]_vars

\* the replacer under any sequence of calls
SpecReplacer == InitReplacer /\ [][NextReplacer]_vars

\* the parallel pool under any sequence of calls of one caller
SpecPar == InitPar /\ [][NextPar]_vars

\* the parallel pool called by NumThreads threads
SpecThreads == InitPar /\ [][NextThreads]_vars

\* the same, the threads calling NewPage, FlushAllPages, FetchPage, FlushPage
SpecLocks == InitPar /\ [][NextLocks]_vars

\* the parallel pool under any sequence of NewPage and UnpinPage calls
SpecParRun == InitPar /\ [][NextParRun]_vars

\* the parallel pool under a scheduler that lets every thread go on that is
\* again and again able to: a thread waiting for a mutex gets it in the end
SpecFair ==
  /\ InitPar
  /\ [][NextFair]_vars
  /\ \A t \in Threads : SF_vars(ThreadStep(t))

\* the hash table under any sequence of up to MaxCalls Insert and Remove calls
SpecHash == InitHash /\ [][NextHash]_vars

\* the same for up to MaxRecorded calls, with every call and its result recorded
SpecHashCalls == InitHashCalls /\ [][NextHash]_vars

\* a bucket page on its own
SpecBucket == InitBucket /\ [][NextBucket]_vars

\* the lock manager and its transactions
SpecLock == InitLock /\ [][NextLock]_vars

\* ------------------------------------------------------------ claims
FrameOf(page_id) == FindPageByPageId(pages_, page_id)

InReplacer(f) == ReplacerHolds(lru_cache_, current_element_, f)

Resident == {f \in Frames : pages_[f].page_id # INVALID_PAGE_ID}

Returned ==
  obs_last.op \in {"NewPage", "FetchPage"} /\ obs_last.ret # NoFrame

\* C1: the frame NewPage or FetchPage chooses as victim (from the free list or
\* from the replacer) has pin_count 0 at the moment it is chosen.
C1_VictimIsUnpinned ==
  (Returned /\ obs_last.victim # NoFrame) => obs_last.victim_pin = 0

\* C2: right after NewPage returned page p, or FetchPage(p) returned a frame,
\* that frame holds page p and its pin_count is at least 1.
C2_ReturnedFrameIsPinned ==
  Returned => /\ pages_[obs_last.ret].page_id = obs_last.page
              /\ pages_[obs_last.ret].pin_count >= 1

\* C3: FetchPage of a resident page raises the frame's pin_count by exactly one
\* and leaves the frame absent from the replacer.
C3_FetchResidentPins ==
  (Returned /\ obs_last.op = "FetchPage" /\ obs_last.hit)
    => /\ pages_[obs_last.ret].pin_count = obs_last.pre_pin + 1
       /\ ~InReplacer(obs_last.ret)

\* C4: a frame is in the replacer iff its page_id is not INVALID and its
\* pin_count is 0.
C4_ReplacerIffUnpinnedResident ==
  \A f \in Frames :
    InReplacer(f) <=> (pages_[f].page_id # INVALID_PAGE_ID /\ pages_[f].pin_count = 0)

\* C5: a frame is in the free list iff its page_id is INVALID, and no frame is
\* in the free list twice.
C5_FreeListIffInvalid ==
  \A f \in Frames :
    /\ InSeq(free_list_, f) <=> pages_[f].page_id = INVALID_PAGE_ID
    /\ Cardinality({i \in 1 .. Len(free_list_) : free_list_[i] = f}) <= 1

\* C5 witness: DeletePage has just put a frame back into the free list while
\* another frame still holds a page.
C5_Witness ==
  /\ obs_last.op = "DeletePage"
  /\ obs_last.freed # NoFrame
  /\ InSeq(free_list_, obs_last.freed)
  /\ Resident # {}

\* C6: no two frames hold the same page_id other than INVALID.
C6_UniquePageIds ==
  \A f, g \in Resident : f # g => pages_[f].page_id # pages_[g].page_id

\* C7: on a fresh pool of size n, n NewPage calls return n distinct pages in n
\* distinct frames, all pinned; every further NewPage returns none; after one
\* successful UnpinPage the next NewPage succeeds and reuses that page's frame.
C7_FillUnpinAllocate ==
  /\ obs_run.kind = "fill" =>
       /\ Cardinality(Resident)
            = (IF obs_run.n > PoolSize THEN PoolSize ELSE obs_run.n)
       /\ \A f \in Resident : pages_[f].pin_count = 1
       /\ \A f, g \in Resident : f # g => pages_[f].page_id # pages_[g].page_id
       /\ obs_run.n \in 1 .. PoolSize =>
            /\ Returned
            /\ pages_[obs_last.ret].page_id = obs_last.page
       /\ obs_run.n > PoolSize => (obs_last.op = "NewPage" /\ ~Returned)
  /\ obs_run.kind = "again" =>
       /\ Returned
       /\ obs_last.ret = obs_run.u
       /\ pages_[obs_run.u].pin_count = 1

\* C7 witness: the pool was filled, a further NewPage was refused, one page was
\* unpinned and NewPage then returned that page's frame.
C7_Witness ==
  /\ obs_run.kind = "again"
  /\ obs_run.n > PoolSize
  /\ obs_last.ret = obs_run.u
  /\ obs_last.op = "NewPage"

\* C8: when the free list is empty, a successful NewPage evicts the resident
\* page that was unpinned earliest, that is the frame at the head of obs_order
\* (the replacer hands out frames in the order Unpin made them evictable).
C8_NewPageEvictsEarliestUnpinned ==
  (Returned /\ obs_last.op = "NewPage" /\ ~obs_last.from_free)
    => /\ obs_last.oldest # NoFrame
       /\ obs_last.victim = obs_last.oldest

\* C9: bytes a client wrote into a page it held and handed over with
\* UnpinPage(p, true) are the bytes of p from then on: in a frame of p while p is
\* resident, on disk once p's frame has been reused, and so in the frame a later
\* FetchPage(p) fills.
C9_WriteBackRoundTrip ==
  obs_expect # -1 =>
    IF FrameOf(obs_watch) = NoFrame
      THEN disk[obs_watch] = obs_expect
      ELSE \E f \in Frames : /\ pages_[f].page_id = obs_watch
                              /\ pages_[f].data = obs_expect

\* C10: UnpinPage never clears a dirty bit; a frame's dirty bit goes from true
\* to false only when NewPage or FetchPage gives the frame a new page.
C10_DirtyClearedOnlyByReuse ==
  [][\A f \in Frames :
       (pages_[f].is_dirty /\ ~pages_'[f].is_dirty)
         => /\ obs_last'.op \in {"NewPage", "FetchPage"}
            /\ obs_last'.victim = f]_vars

\* C10 witness: UnpinPage(p, false) was called on a resident dirty page, and a
\* resident frame is dirty afterwards.
C10_Witness ==
  /\ obs_last.op = "UnpinPage"
  /\ ~obs_last.arg_dirty
  /\ obs_last.pre_dirty
  /\ \E f \in Resident : pages_[f].is_dirty

\* frame metadata the pool keeps: page_id_, pin_count_, is_dirty_
Meta(pg) == [f \in Frames |-> << pg[f].page_id, pg[f].pin_count, pg[f].is_dirty >>]

\* C11: UnpinPage(p, d) returns false when p is not resident and when p is
\* resident with pin_count 0, and then leaves every frame's page_id, pin_count
\* and dirty bit, the free list and the replacer unchanged; otherwise it returns
\* true and decrements pin_count by exactly one.
C11_UnpinRefusalAndDecrement ==
  [][obs_last'.op = "UnpinPage" =>
       LET f == FindPageByPageId(pages_, obs_last'.page)
       IN IF f = NoFrame \/ pages_[f].pin_count = 0
            THEN /\ obs_last'.ret = 0
                 /\ Meta(pages_') = Meta(pages_)
                 /\ UNCHANGED << free_list_, lru_cache_, current_element_ >>
            ELSE /\ obs_last'.ret = 1
                 /\ pages_'[f].pin_count = pages_[f].pin_count - 1]_vars

\* C11 witness: UnpinPage was refused on a resident page whose pin_count is 0.
C11_Witness ==
  /\ obs_last.op = "UnpinPage"
  /\ obs_last.ret = 0
  /\ FrameOf(obs_last.page) # NoFrame
  /\ pages_[FrameOf(obs_last.page)].pin_count = 0

\* C12: DeletePage(p) on a resident page with pin_count > 0 returns false and
\* leaves that frame, the free list and the replacer unchanged, with no disk
\* write.
C12_DeletePinnedRefused ==
  [][obs_last'.op = "DeletePage" =>
       LET f == FindPageByPageId(pages_, obs_last'.page)
       IN (f # NoFrame /\ pages_[f].pin_count > 0) =>
            /\ obs_last'.ret = 0
            /\ pages_'[f] = pages_[f]
            /\ UNCHANGED << free_list_, lru_cache_, current_element_, disk >>]_vars

\* C12 witness: DeletePage was refused on a resident pinned page while another
\* frame holds an unpinned page.
C12_Witness ==
  /\ obs_last.op = "DeletePage"
  /\ obs_last.ret = 0
  /\ FrameOf(obs_last.page) # NoFrame
  /\ pages_[FrameOf(obs_last.page)].pin_count > 0
  /\ \E g \in Resident : pages_[g].pin_count = 0

\* C13: DeletePage(p) on a resident page with pin_count 0 returns true, and
\* afterwards p is not resident, the frame's page_id is INVALID, the frame is in
\* the free list and no longer in the replacer.
C13_DeleteFreesFrame ==
  (obs_last.op = "DeletePage" /\ obs_last.freed # NoFrame) =>
    /\ obs_last.ret = 1
    /\ FrameOf(obs_last.page) = NoFrame
    /\ pages_[obs_last.freed].page_id = INVALID_PAGE_ID
    /\ InSeq(free_list_, obs_last.freed)
    /\ ~InReplacer(obs_last.freed)

\* C14: a NewPage call that returns none changes neither the counter, the free
\* list, the replacer nor any frame; the counter moves only in a successful
\* NewPage, which returns the counter's value and advances it by num_instances_,
\* so the ids returned are instance_index_, instance_index_ + N, ... with no gap.
C14_RefusedNewPageChangesNothing ==
  [][/\ (obs_last'.op = "NewPage" /\ obs_last'.ret = NoFrame) =>
          UNCHANGED << next_page_id_, free_list_, lru_cache_, current_element_, pages_ >>
     /\ (obs_last'.op = "NewPage" /\ obs_last'.ret # NoFrame) =>
          /\ obs_last'.page = next_page_id_
          /\ next_page_id_' = next_page_id_ + num_instances_
     /\ next_page_id_' # next_page_id_ =>
          (obs_last'.op = "NewPage" /\ obs_last'.ret # NoFrame)]_vars

\* C14 witness: after a successful NewPage, a NewPage call was refused because
\* every frame is pinned, with page ids still left to hand out.
C14_Witness ==
  /\ obs_last.op = "NewPage"
  /\ obs_last.ret = NoFrame
  /\ next_page_id_ > instance_index_
  /\ next_page_id_ <= MaxPageId
  /\ \A f \in Frames : pages_[f].pin_count > 0

\* page ids par_run recorded whose residue modulo the number of instances is r
IdsOfResidue(r) == {p \in par_run.ids : p % NumInstances = r}

\* C15: every page id the parallel NewPage returns was allocated by instance
\* (page_id mod N) and sits pinned in a frame of that instance; every resident
\* page of every instance has that instance's residue, so page-addressed calls
\* reach the instance that holds the page; on a fresh pool N*s NewPage calls all
\* succeed and return, for each residue 0..N-1, the progression r, r+N, ...
\* of s page ids.
C15_ShardedPageIds ==
  /\ \A k \in Instances :
       /\ instances_[k].next % NumInstances = k
       /\ \A f \in Frames :
            instances_[k].pages[f].page_id # INVALID_PAGE_ID
              => instances_[k].pages[f].page_id % NumInstances = k
  /\ (par_last.op = "NewPage" /\ par_last.ret # NoFrame) =>
       /\ par_last.page % NumInstances = par_last.inst
       /\ instances_[par_last.inst].pages[par_last.ret].page_id = par_last.page
       /\ instances_[par_last.inst].pages[par_last.ret].pin_count = 1
  /\ par_run.kind = "fill" =>
       /\ Cardinality(par_run.ids) = par_run.calls
       /\ \A r \in Instances :
            IdsOfResidue(r)
              = {r + j * NumInstances : j \in 0 .. (Cardinality(IdsOfResidue(r)) - 1)}
       /\ par_run.calls = NumInstances * PoolSize =>
            \A r \in Instances : Cardinality(IdsOfResidue(r)) = PoolSize

\* C15 witness: N*s NewPage calls were made on the fresh pool.
C15_Witness ==
  /\ par_run.kind = "fill"
  /\ par_run.calls = NumInstances * PoolSize
  /\ par_last.op = "NewPage"
  /\ par_last.inst = NumInstances - 1

\* C16: after a successful parallel NewPage served by instance i the cursor
\* candidate_instance_index_ is (i + 1) mod N.
C16_RoundRobinCursor ==
  (par_last.op = "NewPage" /\ par_last.ret # NoFrame)
    => candidate_instance_index_ = (par_last.inst + 1) % NumInstances

\* C17: the parallel NewPage returns none only after every one of the N
\* instances refused, and then no instance has a free frame or an unpinned
\* frame; an instance the walk passed over before it was served has none either.
C17_NoneOnlyIfAllRefused ==
  par_last.op = "NewPage" =>
    /\ par_last.ret = NoFrame => par_last.refused = Instances
    /\ \A k \in par_last.refused :
         /\ instances_[k].fl = << >>
         /\ \A f \in Frames : instances_[k].pages[f].pin_count > 0

\* C17 witness: NewPage returned none on a pool that had served pages before.
C17_Witness ==
  /\ par_last.op = "NewPage"
  /\ par_last.ret = NoFrame
  /\ par_last.refused = Instances
  /\ \A k \in Instances : instances_[k].next > k

\* the instance mutexes thread t holds
HoldsInstance(t) == {k \in Instances : locks_[k] = t}

\* thread t waits for a mutex that another thread holds
Blocked(t) ==
  \/ threads_[t].pc = "alloc" /\ ~MutexFree(new_page_lock_)
  \/ threads_[t].pc = "lock" /\ ~MutexFree(locks_[threads_[t].k])

\* C18: no thread ever holds two instance mutexes; a thread that waits for
\* the allocation mutex holds no instance mutex, and a thread inside NewPage
\* that holds an instance mutex holds the allocation mutex; whenever a thread
\* is inside a call, some thread inside a call can take its next step.
C18_LockOrderNoDeadlock ==
  /\ \A t \in Threads :
       /\ Cardinality(HoldsInstance(t)) <= 1
       /\ threads_[t].pc = "alloc" => HoldsInstance(t) = {}
       /\ threads_[t].pc = "idle" => (HoldsInstance(t) = {} /\ new_page_lock_ # t)
       /\ (threads_[t].kind = "new" /\ HoldsInstance(t) # {}) => new_page_lock_ = t
  /\ (\E t \in Threads : threads_[t].pc # "idle")
       => \E t \in Threads : threads_[t].pc # "idle" /\ ~Blocked(t)

\* C18 witness: a thread inside NewPage holds the allocation mutex and the
\* mutex of the second instance of its walk while another thread waits.
C18_Witness ==
  \E t, u \in Threads :
    /\ threads_[t].kind = "new"
    /\ threads_[t].pc = "call"
    /\ threads_[t].i >= 1
    /\ new_page_lock_ = t
    /\ Blocked(u)

\* C19: a thread runs an operation of instance k only while it holds
\* locks_[k], so no two threads are inside operations of the same instance.
C19_InstanceMutualExclusion ==
  /\ \A t \in Threads :
       threads_[t].pc = "call" => locks_[threads_[t].k] = t
  /\ \A t, u \in Threads :
       (t # u /\ threads_[t].pc = "call" /\ threads_[u].pc = "call")
         => threads_[t].k # threads_[u].k

\* C19 witness: a thread is inside a page-addressed operation of an instance
\* that holds pages while a thread inside NewPage waits for the same instance.
C19_Witness ==
  \E t, u \in Threads :
    /\ threads_[t].pc = "call"
    /\ threads_[t].kind = "page"
    /\ threads_[u].pc = "lock"
    /\ threads_[u].kind = "new"
    /\ threads_[u].k = threads_[t].k
    /\ \E f \in Frames :
         instances_[threads_[t].k].pages[f].page_id # INVALID_PAGE_ID

\* the values of a sequence
Range(f) == {f[i] : i \in DOMAIN f}

\* the directory slot of the pair's key names a bucket page
Addressed(pair) == KeyToPageId(pair[1], directory_page) \in DOMAIN bucket_pages

\* GetValue of the pair's key returns the pair's value
Found(pair) == pair[2] \in Range(GetValue(pair[1]))

\* C20: a pair whose Insert returned true and that has not been removed since
\* is returned by GetValue after every later Insert that splits a bucket and
\* grows the directory: a split loses no stored pair and makes none
\* unreachable (a pair whose directory slot names no bucket page after the
\* split is left aside)
C20_SplitKeepsStoredPairs ==
  [][directory_page'.global_depth_ > directory_page.global_depth_ =>
       \A pair \in ht_stored :
         Addressed(pair) /\ Found(pair) /\ Addressed(pair)' => Found(pair)']_vars

\* how often GetValue(key) returns value
Occurrences(key, value) ==
  IF KeyToPageId(key, directory_page) \in DOMAIN bucket_pages
    THEN Cardinality({i \in DOMAIN GetValue(key) : GetValue(key)[i] = value})
    ELSE 0

\* the pair of the last recorded call
LastPair == << ht_last.key, ht_last.value >>

\* the table itself, without what its callers observe
table_state == << directory_page, bucket_pages, lookup_page_lsb_value_, cur_pages_count,
                 ht_next_page_id >>

UsedSlots == {i \in DirSlots : i < Size(directory_page)}

\* C22: after every completed Insert, every directory entry below
\* 2^global_depth points to an allocated bucket page (never page id 0), the
\* entry's index masked to its local depth equals the signature recorded for
\* that page, and every bucket page that holds pairs is pointed to by an entry
C22_DirectoryInvariant ==
  directory_page.global_depth_ > 0 =>
    /\ \A i \in UsedSlots :
         LET page_id == directory_page.bucket_page_ids_[i]
         IN  /\ page_id # 0
             /\ page_id \in DOMAIN bucket_pages
             /\ page_id \in DOMAIN lookup_page_lsb_value_
             /\ MaskByLocalDepth(i, directory_page.local_depths_[i])
                  = lookup_page_lsb_value_[page_id]
    /\ \A page_id \in DOMAIN bucket_pages :
         ~BucketIsEmpty(bucket_pages[page_id])
           => \E i \in UsedSlots : directory_page.bucket_page_ids_[i] = page_id

\* pin count of a page of the hash table in its buffer pool: NewPage hands a
\* page over with pin count 1 (NewPgImp, line 117), FetchPage of a resident
\* page leaves the count alone (FetchPgImp, lines 129-131), and the table
\* calls UnpinPage only for the directory page, in GetGlobalDepth
HtPinCount(page_id) ==
  IF page_id = directory_page_id_ THEN ht_pin_count
  ELSE IF page_id \in DOMAIN bucket_pages THEN 1
  ELSE 0

\* C23: every Insert and Remove call that returns leaves the pin count of
\* the directory page and of every bucket page as it was before the call
\* (each page the call fetched or created has been unpinned again), so that
\* calls on the table do not use up the frames of the pool
C23_OperationsUnpinTheirPages ==
  [][~ht_aborted' =>
       \A page_id \in {directory_page_id_} \cup DOMAIN bucket_pages' :
         HtPinCount(page_id)' = HtPinCount(page_id)]_vars

\* ------------------------------- hash table called by two threads
\* The table_latch_ calls of GetValue, Insert and Remove are comments (lines
\* 88, 96, 105, 112, 128, 135): nothing orders the steps of one thread's
\* GetValue and another thread's Insert.

\* the pairs GetValue returns
FoundPairs == {pair \in Keys \X Values : Addressed(pair) /\ Found(pair)}

\* Insert(key, value) goes to SplitInsert (lines 110-112 and 125-129)
Splits(key, value) ==
  \/ directory_page.global_depth_ = 0
  \/ LET page_id == KeyToPageId(key, directory_page)
     IN  /\ page_id \in DOMAIN bucket_pages
         /\ ~KeyAndValueExistInArray(bucket_pages[page_id], key, value)
         /\ BucketIsFull(bucket_pages[page_id])

\* GetValue, lines 89-91: the thread reads the directory page and finds the
\* bucket page of a key that has a stored pair.  It expects the values that
\* were stored before its call and before the Insert in progress began.  A run
\* has one GetValue call.
ReaderBegin(key) ==
  /\ ht_reader.pc = "idle"
  /\ ~ht_aborted
  /\ KeyToPageId(key, directory_page) \in DOMAIN bucket_pages
  /\ LET before == IF ht_writer.pc = "idle" THEN FoundPairs ELSE ht_writer.before
         expect == {value \in Values : << key, value >> \in before}
     IN  /\ expect # {}
         /\ ht_reader' = [pc |-> "bucket", key |-> key,
                          page_id |-> KeyToPageId(key, directory_page),
                          expect |-> expect, result |-> {}]
  /\ UNCHANGED << table_vars, ht_calls, ht_last, ht_writer >>

\* GetValue, lines 91-97: the thread reads the bucket page and returns
ReaderFinish ==
  /\ ht_reader.pc = "bucket"
  /\ ht_reader' = [ht_reader EXCEPT
                     !.pc = "done",
                     !.result = Range(BucketGetValue(bucket_pages[ht_reader.page_id],
                                                     ht_reader.key))]
  /\ UNCHANGED << table_vars, ht_calls, ht_last, ht_writer >>

\* Insert without a split: the duplicate test and the bucket's Insert
WriterInsert(key, value) ==
  /\ ht_writer.pc = "idle"
  /\ ~Splits(key, value)
  /\ HtInsert(key, value)

\* Insert up to the return of CreatePageAndUpdateDirectory (line 145)
WriterSplitBegin(key, value) ==
  /\ ht_writer.pc = "idle"
  /\ ~ht_aborted
  /\ ht_calls < CallLimit
  /\ Splits(key, value)
  /\ ht_calls' = ht_calls + 1
  /\ IF GetGlobalDepthAborts \/ IncrGlobalDepthFails(directory_page)
       THEN /\ ht_aborted' = TRUE
            /\ UNCHANGED << directory_page, bucket_pages, lookup_page_lsb_value_,
                            cur_pages_count, ht_next_page_id, ht_pin_count, ht_writer >>
       ELSE \E rank \in IterationOrders(Table, key) :
              LET c == CreatePageAndUpdateDirectory(Table, key, rank)
              IN  /\ TableBecomes(c.t)
                  /\ ht_pin_count' = PinCountAfterGetGlobalDepth
                  /\ ht_writer' = [pc |-> "gather", key |-> key, value |-> value,
                                   old_page_id |-> c.old_full_page_id,
                                   pairs_to_add |-> << >>, before |-> FoundPairs]
                  /\ UNCHANGED ht_aborted
  /\ UNCHANGED << ht_assertions, ht_stored, ht_last, ht_reader >>

\* SplitInsert, lines 148-160: the pairs of the old bucket page are gathered
\* and the page is emptied
WriterGather ==
  /\ ht_writer.pc = "gather"
  /\ LET old_page_id == ht_writer.old_page_id
         gathered == IF old_page_id # -1 THEN GetAllElements(bucket_pages[old_page_id])
                     ELSE << >>
     IN  /\ bucket_pages' = IF old_page_id # -1
                              THEN [bucket_pages EXCEPT
                                      ![old_page_id] = RemoveAllElements(@)]
                              ELSE bucket_pages
         /\ ht_writer' = [ht_writer EXCEPT
                            !.pc = "reinsert",
                            !.pairs_to_add = Append(gathered, [key |-> ht_writer.key,
                                                               value |-> ht_writer.value])]
  /\ UNCHANGED << directory_page, lookup_page_lsb_value_, cur_pages_count,
                  ht_next_page_id, ht_pin_count, ht_assertions, ht_aborted, ht_stored,
                  ht_calls, ht_last, ht_reader >>

\* SplitInsert, lines 163-173: one round of the loop, and the return after
\* the last pair or after a refused one
WriterReinsert ==
  /\ ht_writer.pc = "reinsert"
  /\ LET r == Reinsert(Table, << Head(ht_writer.pairs_to_add) >>, 1)
         last == Len(ht_writer.pairs_to_add) = 1
         call == [op |-> "Insert", key |-> ht_writer.key, value |-> ht_writer.value,
                  ret |-> r.ret]
     IN  /\ ~r.wild
         /\ TableBecomes(r.t)
         /\ ht_writer' = IF r.ret /\ ~last
                           THEN [ht_writer EXCEPT !.pairs_to_add = Tail(@)]
                           ELSE HtIdle
         /\ ht_last' = IF r.ret /\ ~last THEN ht_last ELSE HtLogged(call)
         /\ ht_stored' = IF r.ret /\ last
                           THEN ht_stored \cup {<< ht_writer.key, ht_writer.value >>}
                           ELSE ht_stored
  /\ UNCHANGED << ht_pin_count, ht_assertions, ht_aborted, ht_calls, ht_reader >>

\* one thread calls GetValue while another calls Insert
NextHashThreads ==
  \/ \E key \in Keys : ReaderBegin(key) /\ UNCHANGED << bpi_vars, par_vars, unit_vars >>
  \/ ReaderFinish /\ UNCHANGED << bpi_vars, par_vars, unit_vars >>
  \/ \E key \in Keys, value \in Values :
       WriterInsert(key, value) /\ UNCHANGED << bpi_vars, par_vars, unit_vars >>
  \/ \E key \in Keys, value \in Values :
       WriterSplitBegin(key, value) /\ UNCHANGED << bpi_vars, par_vars, unit_vars >>
  \/ WriterGather /\ UNCHANGED << bpi_vars, par_vars, unit_vars >>
  \/ WriterReinsert /\ UNCHANGED << bpi_vars, par_vars, unit_vars >>

\* the hash table called by a thread that reads and a thread that inserts
SpecHashThreads == InitHashCalls /\ [][NextHashThreads]_vars

\* C24: a GetValue call that runs while another thread's Insert splits a
\* bucket returns every value of its key that was stored before both calls
\* began: the table latch keeps it from reading the directory and the bucket
\* pages between the steps of the split
C24_GetValueLatchedAgainstSplit ==
  ht_reader.pc = "done" => ht_reader.expect \subseteq ht_reader.result

\* C25: when FlushPage(p) has returned true the disk holds for p the bytes
\* that are in p's frame, and when FlushAllPages has returned it does so for
\* every resident page, whatever the pin counts are and whatever dirty
\* arguments UnpinPage was given before
C25_FlushMakesDiskCurrent ==
  [][pages_' = pages_ =>
       /\ (obs_last'.op = "FlushPage" /\ obs_last'.ret = 1)
            => disk'[obs_last'.page] = pages_[FrameOf(obs_last'.page)].data
       /\ obs_last'.op = "FlushAllPages"
            => \A f \in Resident : disk'[pages_[f].page_id] = pages_[f].data]_vars

C27_RemoveTakesExactlyThePair ==
  [][ht_last'.op = "Remove" /\ ht_calls' # ht_calls =>
       /\ ht_last'.ret = (LastPair' \in FoundPairs)
       /\ FoundPairs' = FoundPairs \ {LastPair'}]_vars

\* the frames the replacer holds, least recently unpinned first
Held == SubSeq(lru_cache_, 1, current_element_)

\* the frames held by the replacer that a call leaves behind
HeldAfter(r) == SubSeq(r.lc, 1, r.ce)

\* C28: the replacer keeps the capacity it was constructed with: after any
\* sequence of Unpin, Pin and Victim calls, Unpin(f) of a frame that is not
\* present makes f present whenever Size() is below the pool size
C28_ReplacerKeepsCapacity ==
  \A f \in ReplacerFrames :
    ~InSeq(Held, f) /\ current_element_ < PoolSize
      => InSeq(HeldAfter(Unpin(lru_cache_, current_element_, f)), f)

\* C29: the replacer holds no frame twice and Size() is the number of
\* distinct frames it holds; Unpin of a frame it holds changes neither the
\* frames held nor their order, Pin of a frame it does not hold changes
\* nothing, Pin of a frame it holds removes that frame alone and keeps the
\* order of the others, and Victim on an empty replacer returns none and
\* changes nothing
C29_ReplacerHoldsEachFrameOnce ==
  /\ \A i, j \in 1 .. current_element_ : i # j => lru_cache_[i] # lru_cache_[j]
  /\ current_element_ = Cardinality(Range(Held))
  /\ \A f \in ReplacerFrames :
       LET u == Unpin(lru_cache_, current_element_, f)
           r == Pin(lru_cache_, current_element_, f)
       IN  IF InSeq(Held, f)
             THEN /\ HeldAfter(u) = Held
                  /\ HeldAfter(r) = RemoveAll(Held, f)
                  /\ r.ce = current_element_ - 1
             ELSE /\ HeldAfter(r) = Held
                  /\ r.ce = current_element_
  /\ current_element_ = 0 =>
       LET v == Victim(lru_cache_, current_element_)
       IN  ~v.ok /\ v.frame = NoFrame /\ HeldAfter(v) = Held

\* Pin has taken the older of two held frames out of the replacer
C29_Witness ==
  /\ obs_last.op = "Pin"
  /\ obs_last.size = 2
  /\ current_element_ = 1
  /\ ~InSeq(Held, obs_last.frame)
  /\ obs_last.frame < Held[1]

\* C30: while the free list is not empty, a NewPage or FetchPage call that
\* needs a frame takes the frame at the back of the free list, does not call
\* the replacer's Victim and evicts no resident page; DeletePage puts the
\* frame it frees at the back, so the frame taken is the one freed last
C30_FreeListFirstLifo ==
  [][/\ (obs_last'.victim # NoFrame /\ free_list_ # << >>) =>
          /\ obs_last'.victim = free_list_[Len(free_list_)]
          /\ free_list_' = SubSeq(free_list_, 1, Len(free_list_) - 1)
          /\ lru_cache_' = lru_cache_
          /\ current_element_' = current_element_
          /\ pages_[obs_last'.victim].page_id = INVALID_PAGE_ID
          /\ \A f \in Frames \ {obs_last'.victim} :
               pages_'[f].page_id = pages_[f].page_id
     /\ obs_last'.freed # NoFrame => free_list_' = Append(free_list_, obs_last'.freed)
     /\ (obs_last.freed # NoFrame /\ obs_last'.victim # NoFrame)
          => obs_last'.victim = obs_last.freed]_vars

\* a call has taken a frame that DeletePage had freed, while a frame that
\* has been free for longer stays in the free list
C30_Witness ==
  /\ obs_last.victim # NoFrame
  /\ free_list_ # << >>
  /\ \E i \in 1 .. Len(free_list_) : free_list_[i] > obs_last.victim

\* ------------------------------------------------- bucket page claims
\* the pairs a page holds: those of its readable slots
HeldPairs(p) == {p.array_[i] : i \in {j \in SlotsOf(p) : IsReadable(p, j)}}

\* the slots whose occupied bit is set
OccupiedSlots(p) == {i \in SlotsOf(p) : IsOccupied(p, i)}

\* slot i of q is slot i of p: its pair and both its bits
SameSlot(p, q, i) ==
  /\ q.array_[i] = p.array_[i]
  /\ IsOccupied(q, i) = IsOccupied(p, i)
  /\ IsReadable(q, i) = IsReadable(p, i)

\* what the claim says of Insert(key, value) on page p
InsertAsSpecified(p, key, value) ==
  LET r == PageInsert(p, key, value)
      pair == [key |-> key, value |-> value]
  IN  IF OccupiedSlots(p) = SlotsOf(p) \/ pair \in HeldPairs(p)
        THEN ~r.ret /\ r.page = p
        ELSE LET i == CHOOSE j \in SlotsOf(p) \ OccupiedSlots(p) :
                        \A n \in SlotsOf(p) \ OccupiedSlots(p) : j <= n
             IN  /\ r.ret
                 /\ r.page.array_[i] = pair
                 /\ IsOccupied(r.page, i) /\ IsReadable(r.page, i)
                 /\ \A j \in SlotsOf(p) \ {i} : SameSlot(p, r.page, j)

\* C31: bucket Insert(k, v) returns false and changes nothing when every slot
\* is occupied or the page holds (k, v); otherwise it writes (k, v) into the
\* lowest slot whose occupied bit is clear, sets both bits of that slot, leaves
\* the other slots alone and returns true.  After n Inserts into a fresh page
\* and nothing else, slots 0..n-1 hold n distinct pairs, and the Insert of one
\* more pair succeeds exactly when n < BUCKET_ARRAY_SIZE.
C31_BucketInsert ==
  /\ \A key \in PageKeys, value \in Values : InsertAsSpecified(bkt_page, key, value)
  /\ bkt_removals = 0 =>
       LET n == Cardinality(HeldPairs(bkt_page))
       IN  /\ OccupiedSlots(bkt_page) = 0 .. n - 1
           /\ n <= bkt_page.size
           /\ \A key \in PageKeys, value \in Values :
                [key |-> key, value |-> value] \notin HeldPairs(bkt_page)
                  => PageInsert(bkt_page, key, value).ret = (n < bkt_page.size)

\* a page of MaxBucketArraySize slots filled by that many Inserts
C31_Witness ==
  /\ bkt_page.size = MaxBucketArraySize
  /\ bkt_removals = 0
  /\ Cardinality(HeldPairs(bkt_page)) = MaxBucketArraySize

\* C32: IsFull is true exactly when every one of the BUCKET_ARRAY_SIZE slots
\* is occupied, whatever the capacity; so the table's Insert of a new pair
\* into a bucket without a free slot goes to SplitInsert.
C32_IsFullForEveryCapacity ==
  /\ IsFull(bkt_page) <=> OccupiedSlots(bkt_page) = SlotsOf(bkt_page)
  /\ \A key \in PageKeys, value \in Values :
       OccupiedSlots(bkt_page) = SlotsOf(bkt_page)
         /\ [key |-> key, value |-> value] \notin HeldPairs(bkt_page)
       => InsertPath(bkt_page, key, value) = "SplitInsert"

\* C40: RemoveAt(i) on an occupied slot clears the readable bit of slot i and
\* leaves every other readable bit and all occupied bits as they were; on a
\* slot that is not occupied it changes nothing.
C40_RemoveAtClearsOneBit ==
  \A i \in SlotsOf(bkt_page) :
    LET q == RemoveAt(bkt_page, i)
    IN  IF IsOccupied(bkt_page, i)
          THEN /\ ~IsReadable(q, i)
               /\ \A j \in SlotsOf(bkt_page) \ {i} :
                    IsReadable(q, j) = IsReadable(bkt_page, j)
               /\ q.occupied_ = bkt_page.occupied_
          ELSE q = bkt_page

\* ------------------------------------------------- split claims
\* C33: an Insert that goes through SplitInsert re-inserts every pair it
\* gathered from the full bucket and the new pair: each Insert of the loop
\* of lines 163-171 finds a free slot, so the call returns true.
C33_ReinsertionSucceeds ==
  [][directory_page'.global_depth_ > directory_page.global_depth_
       => ht_last'.op = "Insert" /\ ht_last'.ret]_vars

\* ------------------------------------------ the table on a small pool
\* The table's pool is a BufferPoolManagerInstance of ht_pool_size frames.
\* The constructor took a frame for the directory page; every bucket page
\* keeps the pin NewPage gave it (nothing unpins it), so page ids 0 ..
\* ht_next_page_id - 1 hold a frame each and the rest of the pool is free.
FreeFrames == ht_pool_size - ht_next_page_id

\* NewPage calls CreatePageAndUpdateDirectory makes (lines 184-186, 204)
NewPagesWanted == IF directory_page.global_depth_ = 0 THEN 2 ELSE 1

\* what SplitInsert may find in old_page_id when CreatePageAndUpdateDirectory
\* returned at line 207 without writing *old_full_page_id: -1, the id of a
\* bucket page, the id of the directory page, or an id no frame holds
UninitialisedPageIds(t) == {-1, directory_page_id_, t.next} \cup DOMAIN t.buckets

\* CreatePageAndUpdateDirectory when NewPage returns nullptr (free is the
\* number of free frames, below the number of pages wanted)
CreatePageAndUpdateDirectoryNoFrame(t, key, free, junk) ==
  IF t.dir.global_depth_ = 0
    THEN IF free = 0
           THEN \* line 181, then the first NewPage fails (lines 186-189)
             [t |-> [t EXCEPT !.dir = IncrGlobalDepth(t.dir)], old_full_page_id |-> -1]
           ELSE \* the first round of the loop, then the second NewPage fails
             [t |-> [t EXCEPT
                       !.dir = SetBucketPageId(SetLocalDepth(IncrGlobalDepth(t.dir), 0, 1),
                                               t.count, t.next),
                       !.lsb = IF t.next \in DOMAIN t.lsb THEN t.lsb
                               ELSE [p \in DOMAIN t.lsb \cup {t.next} |->
                                       IF p = t.next THEN 0 ELSE t.lsb[p]],
                       !.count = @ + 1, !.next = @ + 1,
                       !.buckets = WithNewPage(@, t.next)],
              old_full_page_id |-> -1]
    ELSE \* lines 204-208: nothing is written, not even *old_full_page_id
      [t |-> t, old_full_page_id |-> junk]

\* SplitInsert when NewPage returns nullptr.  "crash": FetchPage(old_page_id)
\* returns nullptr (no frame holds the page and none is free) and line 151
\* dereferences it.  "wild": the directory page is used as a bucket page.
SplitInsertNoFrame(t, key, value, free, junk) ==
  LET c == CreatePageAndUpdateDirectoryNoFrame(t, key, free, junk)
      old_page_id == c.old_full_page_id
  IN  IF old_page_id # -1 /\ old_page_id = directory_page_id_
        THEN [t |-> c.t, ret |-> FALSE, wild |-> TRUE, crash |-> FALSE]
      ELSE IF old_page_id # -1 /\ old_page_id \notin DOMAIN c.t.buckets
        THEN [t |-> c.t, ret |-> FALSE, wild |-> FALSE, crash |-> TRUE]
      ELSE LET gathered == IF old_page_id # -1
                             THEN GetAllElements(c.t.buckets[old_page_id])
                             ELSE << >>
               t1 == IF old_page_id # -1
                       THEN [c.t EXCEPT !.buckets[old_page_id] = RemoveAllElements(@)]
                       ELSE c.t
               r == Reinsert(t1, Append(gathered, [key |-> key, value |-> value]), 1)
           IN  [t |-> r.t, ret |-> r.ret, wild |-> r.wild, crash |-> FALSE]

\* Insert whose SplitInsert finds the pool without a free frame.  In a build
\* with assertions GetGlobalDepth has unpinned the directory page (line 385),
\* NewPage takes its frame, and the next FetchDirectoryPage returns nullptr:
\* the process ends.  In a build with NDEBUG NewPage returns nullptr.
InsertNoFrame(key, value) ==
  /\ ~ht_aborted
  /\ ht_calls < CallLimit
  /\ ht_calls' = ht_calls + 1
  /\ UNCHANGED << ht_reader, ht_writer, ht_assertions >>
  /\ IF ht_assertions
       THEN /\ ht_aborted' = TRUE
            /\ UNCHANGED << directory_page, bucket_pages, lookup_page_lsb_value_,
                            cur_pages_count, ht_next_page_id, ht_pin_count,
                            ht_stored, ht_last >>
       ELSE \E junk \in UninitialisedPageIds(Table) :
              LET r == SplitInsertNoFrame(Table, key, value, FreeFrames, junk)
              IN  /\ ~r.wild
                  /\ IF r.crash
                       THEN /\ ht_aborted' = TRUE
                            /\ UNCHANGED << directory_page, bucket_pages,
                                            lookup_page_lsb_value_, cur_pages_count,
                                            ht_next_page_id, ht_pin_count,
                                            ht_stored, ht_last >>
                       ELSE /\ TableBecomes(r.t)
                            /\ ht_stored' = IF r.ret THEN ht_stored \cup {<< key, value >>}
                                            ELSE ht_stored
                            /\ ht_last' = HtLogged([op |-> "Insert", key |-> key,
                                                    value |-> value, ret |-> r.ret])
                            /\ UNCHANGED << ht_pin_count, ht_aborted >>

\* NewPage has no frame for a page the call would ask for
NewPageFails(key, value) ==
  /\ Splits(key, value)
  /\ ~GetGlobalDepthAborts
  /\ FreeFrames < NewPagesWanted

\* ExtendibleHashTable::Insert on a pool of ht_pool_size frames
InsertOnPool(key, value) ==
  IF NewPageFails(key, value) THEN InsertNoFrame(key, value) ELSE HtInsert(key, value)

\* the hash table on a pool of 1..MaxTableFrames frames, of which the
\* constructor took one; every call and its result is recorded
InitHashPool ==
  /\ NoInstance
  /\ NoParallelPool
  /\ InitHashTable
  /\ ht_assertions \in BOOLEAN
  /\ ht_last = NoHtCall
  /\ ht_pool_size \in 1 .. MaxTableFrames
  /\ NoBucketPage
  /\ NoLockManager

NextHashPool ==
  \/ \E key \in Keys, value \in Values :
       InsertOnPool(key, value) /\ UNCHANGED << bpi_vars, par_vars, unit_vars >>
  \/ \E key \in Keys, value \in Values :
       HtRemove(key, value) /\ UNCHANGED << bpi_vars, par_vars, unit_vars >>

SpecHashPool == InitHashPool /\ [][NextHashPool]_vars

\* every pair a bucket page of the table holds, with its page
PairsInPages ==
  {<< p, k, v >> \in (DOMAIN bucket_pages) \X Keys \X Values :
     KeyAndValueExistInArray(bucket_pages[p], k, v)}

\* C34: when NewPage returns nullptr during a split or the first growth,
\* Insert returns false and leaves global depth, local depths, bucket
\* pointers and all stored pairs as they were.
C34_NoFrameChangesNothing ==
  [][ht_calls' > ht_calls /\ ~ht_aborted' /\ ~ht_assertions
       /\ ht_last'.op = "Insert" /\ NewPageFails(ht_last'.key, ht_last'.value)
     => /\ ~ht_last'.ret
        /\ directory_page' = directory_page
        /\ PairsInPages' = PairsInPages]_vars

HtGetGlobalDepth ==
  /\ ~ht_aborted
  /\ ht_calls < CallLimit
  /\ ht_calls' = ht_calls + 1
  /\ IF GetGlobalDepthAborts
       THEN ht_aborted' = TRUE /\ UNCHANGED << ht_pin_count, ht_last >>
       ELSE /\ ht_pin_count' = PinCountAfterGetGlobalDepth
            /\ ht_last' = HtLogged([op |-> "GetGlobalDepth", key |-> 0, value |-> 0,
                                    ret |-> TRUE])
            /\ UNCHANGED ht_aborted
  /\ UNCHANGED << directory_page, bucket_pages, lookup_page_lsb_value_, cur_pages_count,
                  ht_next_page_id, ht_assertions, ht_stored, ht_reader, ht_writer >>

\* ExtendibleHashTable::VerifyIntegrity (lines 394-400): the same fetch and
\* the same assertion; the checks of the directory page itself are not
\* part of the model
HtVerifyIntegrity ==
  /\ ~ht_aborted
  /\ ht_calls < CallLimit
  /\ ht_calls' = ht_calls + 1
  /\ IF GetGlobalDepthAborts
       THEN ht_aborted' = TRUE /\ UNCHANGED << ht_pin_count, ht_last >>
       ELSE /\ ht_pin_count' = PinCountAfterGetGlobalDepth
            /\ ht_last' = HtLogged([op |-> "VerifyIntegrity", key |-> 0, value |-> 0,
                                    ret |-> TRUE])
            /\ UNCHANGED ht_aborted
  /\ UNCHANGED << directory_page, bucket_pages, lookup_page_lsb_value_, cur_pages_count,
                  ht_next_page_id, ht_assertions, ht_stored, ht_reader, ht_writer >>

\* Insert, Remove, GetGlobalDepth and VerifyIntegrity calls in any order
NextHashAsserts ==
  \/ \E key \in Keys, value \in Values :
       HtInsert(key, value) /\ UNCHANGED << bpi_vars, par_vars, unit_vars >>
  \/ \E key \in Keys, value \in Values :
       HtRemove(key, value) /\ UNCHANGED << bpi_vars, par_vars, unit_vars >>
  \/ HtGetGlobalDepth /\ UNCHANGED << bpi_vars, par_vars, unit_vars >>
  \/ HtVerifyIntegrity /\ UNCHANGED << bpi_vars, par_vars, unit_vars >>

SpecHashAsserts == InitHashCalls /\ [][NextHashAsserts]_vars

\* C38: the assertion that UnpinPage(directory_page_id, false) returns true
\* holds in every call of GetGlobalDepth and VerifyIntegrity, also in the
\* GetGlobalDepth call of every split: no call ends the process there.
C38_UnpinAssertionsHold ==
  [][~ht_aborted /\ ht_aborted' => ~GetGlobalDepthAborts]_vars

\* ------------------------------------------------ what reaches the disk
\* C37: every page id a call hands to DiskManager::WritePage is a valid page
\* id, some frame held that page when the call began, and the bytes written
\* are the bytes of that frame.
C37_WritePageValidAndCurrent ==
  [][obs_last' # obs_last =>
       \A p \in obs_last'.wrote :
          /\ p # INVALID_PAGE_ID
          /\ \E f \in Frames : /\ pages_[f].page_id = p
                               /\ disk'[p] = pages_[f].data]_vars

Live == {t \in TxnIds : txns_[t].state_ # "ABORTED"}

\* C39: a RID is in the exclusive lock set of at most one transaction that is
\* not aborted, and then no other such transaction has it in its shared lock set.
C39_ExclusiveIsExclusive ==
  \A rid \in Rids : \A t, u \in Live :
    (t # u /\ rid \in txns_[t].exclusive_lock_set_)
      => /\ rid \notin txns_[u].exclusive_lock_set_
         /\ rid \notin txns_[u].shared_lock_set_

====
